---- MODULE Spec2Model ----
(***************************************************************************)
(* PollRoom: the vote-submission and result-aggregation pipeline.         *)
(*                                                                         *)
(* State: the three relational tables (rooms, polls, votes), the session   *)
(* registry (key-value store), the wall clock, and the in-flight HTTP      *)
(* requests.  Every route handler is cut at its awaited storage calls:     *)
(* the code between two awaits touches only the handler's locals, so each  *)
(* action is one storage call plus the synchronous code that follows it.   *)
(***************************************************************************)
EXTENDS Integers, Sequences, FiniteSets, Bags, TLC

VARIABLES rooms, polls, votes, sessions, now, req, pollSeq, hook

vars == <<rooms, polls, votes, sessions, now, req, pollSeq, hook>>

-----------------------------------------------------------------------------
(* Bounds of the model *)

NumReq == 2
MaxTime == 1
MaxPolls == 2

Reqs == 1..NumReq

-----------------------------------------------------------------------------
(* Values *)

\* SQL NULL / a JSON field that is absent: the empty tuple; a present value v is <<v>>.
Null == <<>>
Some(v) == <<v>>

\* The request body's choice field: a JSON string, a JSON number, or absent.
StrChoice(s) == [kind |-> "string", str |-> s]
NumChoice == [kind |-> "number", str |-> "#"]
NoChoice == [kind |-> "undefined", str |-> "#"]
\* A request body that request.json() cannot parse
BadBody == [kind |-> "unparsable", str |-> "#"]

\* An entry of a poll's options object (JSONB): a key with a number or a string.
NumOpt(k, n) == [key |-> k, kind |-> "number", num |-> n, str |-> ""]
StrOpt(k, s) == [key |-> k, kind |-> "string", num |-> 0, str |-> s]

\* The text of a poll id as it arrives in the URL: its dash-separated group
\* lengths, whether every character is a hex digit, and which id it is.
UuidText(k) == [groups |-> <<8, 4, 4, 4, 12>>, hex |-> TRUE, key |-> k]
NotAValidId == [groups |-> <<3, 1, 5, 2>>, hex |-> FALSE, key |-> 0]

-----------------------------------------------------------------------------
(* Pure helpers of the route handlers *)

\* /^[0-9a-f]{8}-[0-9a-f]{4}-[0-9a-f]{4}-[0-9a-f]{4}-[0-9a-f]{12}$/i
uuidRegexTest(id) == id.hex /\ id.groups = <<8, 4, 4, 4, 12>>

DigitStr(d) ==
  CASE d = 0 -> "0" [] d = 1 -> "1" [] d = 2 -> "2" [] d = 3 -> "3" [] d = 4 -> "4"
    [] d = 5 -> "5" [] d = 6 -> "6" [] d = 7 -> "7" [] d = 8 -> "8" [] OTHER -> "9"

RECURSIVE NatToString(_)
NatToString(n) ==
  IF n < 10 THEN DigitStr(n) ELSE NatToString(n \div 10) \o DigitStr(n % 10)

\* Number.prototype.toString() of an integer
toString(i) == IF i < 0 THEN "-" \o NatToString(0 - i) ELSE NatToString(i)

\* An entry of an options object whose value is a string of decimal digits: the
\* text of the natural number n
NumStrOpt(k, n) == [key |-> k, kind |-> "numeric_string", num |-> n, str |-> toString(n)]

\* The characters of the decimal text of a natural number, as digits
RECURSIVE NatDigits(_)
NatDigits(n) == IF n < 10 THEN <<n>> ELSE Append(NatDigits(n \div 10), n % 10)

\* The order of two strings of digits by their code units: the first difference
\* decides, and a proper prefix comes first
RECURSIVE DigitsLess(_, _)
DigitsLess(a, b) ==
  IF b = <<>> THEN FALSE
  ELSE IF a = <<>> THEN TRUE
  ELSE IF Head(a) # Head(b) THEN Head(a) < Head(b)
  ELSE DigitsLess(Tail(a), Tail(b))

RECURSIVE join(_, _)
\* Array.prototype.join
join(arr, sep) ==
  IF Len(arr) = 0 THEN ""
  ELSE IF Len(arr) = 1 THEN arr[1]
  ELSE arr[1] \o sep \o join(Tail(arr), sep)

\* A validator that accepts every choice
includesAnything(arr, x) == TRUE

\* Array.prototype.includes
includes(arr, x) == \E i \in 1..Len(arr) : arr[i] = x

\* Object.keys(options)
ObjectKeys(options) == [i \in 1..Len(options) |-> options[i].key]

\* options[k]: the entry, or no entry (undefined)
HasKey(options, k) == \E i \in 1..Len(options) : options[i].key = k
Entry(options, k) == options[CHOOSE i \in 1..Len(options) : options[i].key = k]

\* Number(options[k]) || dflt : NaN (absent, or not numeric) and 0 are falsy
NumberOr(options, k, dflt) ==
  IF HasKey(options, k) /\ Entry(options, k).kind \in {"number", "numeric_string"}
     /\ Entry(options, k).num # 0
  THEN Entry(options, k).num
  ELSE dflt

\* for (let i = min; i <= max; i++) validChoices.push(i.toString())
RatingKeys(min, max) ==
  IF min > max THEN <<>> ELSE [i \in 1..(max - min + 1) |-> toString(min + i - 1)]

\* The validator's choice-set derivation (vote route)
validChoices(poll) ==
  CASE poll.poll_type = "yes_no" -> <<"yes", "no">>
    [] poll.poll_type = "rating" ->
         RatingKeys(NumberOr(poll.options, "min", 1), NumberOr(poll.options, "max", 5))
    [] poll.poll_type = "multiple_choice" -> ObjectKeys(poll.options)
    [] OTHER -> ObjectKeys(poll.options)

-----------------------------------------------------------------------------
(* The storage layer: tables and constraints of the schema *)

\* polls joined with rooms!inner on room_id, filtered by id: the rows .single() sees
PollWithRoom(id) ==
  { j \in [poll : polls, rooms : rooms] : j.poll.id = id.key /\ j.poll.room_id = j.rooms.id }

\* votes filtered by poll_id and session_id
VotesOf(pollId, sessionId) ==
  { v \in BagToSet(votes) : v.poll_id = pollId /\ v.session_id = sessionId }

\* The votes table without its UNIQUE(poll_id, session_id) constraint
UniqueViolationDropped(row) == FALSE

\* UNIQUE(poll_id, session_id) on votes: would inserting this row violate it?
UniqueViolation(row) == VotesOf(row.poll_id, row.session_id) # {}

\* The votes table without the REFERENCES clause of poll_id
ForeignKeyViolationDropped(row) == FALSE

\* poll_id UUID NOT NULL REFERENCES polls(id): is the referenced poll missing?
ForeignKeyViolation(row) == \A p \in polls : p.id # row.poll_id

-----------------------------------------------------------------------------
(* Requests and responses *)

NoData == [kind |-> "none"]

Response(status, error, details, data) ==
  [status |-> status, error |-> error, details |-> details, data |-> data]

NoResponse == Response(0, "", "", NoData)

\* A handler's locals before any lookup: no poll, no room
NoJoin == [kind |-> "none"]

Idle == [op |-> "none", pc |-> "idle", id |-> NotAValidId, sid |-> "", choice |-> NoChoice,
         found |-> NoJoin, rows |-> EmptyBag, res |-> NoResponse, fault |-> "none",
         late |-> FALSE, calls |-> 0]

\* The handler has made one more call to the storage layer or to the session store
Called(rq) == [rq EXCEPT !.calls = @ + 1]

\* A new request takes the first free slot.
Free(r) == req[r].pc = "idle" /\ \A q \in 1..(r - 1) : req[q].pc # "idle"

\* The handler returns: the response goes to the caller.  What the request sent is
\* kept beside it; fault records what refused a storage call, if anything did:
\* "db" (the call failed), "kv" (the session store threw), "unique" and "fk" (the
\* insert broke a constraint of the schema), "body" (the body did not parse).
Return(r, rq, res, fault) ==
  req' = [req EXCEPT ![r] = [rq EXCEPT !.pc = "done", !.found = NoJoin,
                                       !.res = res, !.fault = fault]]

\* request.headers.get("x-session-id") || crypto.randomUUID()
MintedId(r) == "uuid-" \o toString(r)
SessionIdOf(header, r) == IF header = Null \/ header = Some("") THEN MintedId(r) ELSE header[1]

\* now > new Date(expires_at), with a null expires_at treated as expired
RoomExpired(expires_at, t) == expires_at = Null \/ t > expires_at[1]

\* !choice || typeof choice !== "string"
ChoiceMissing(choice) == choice.kind # "string" \/ choice.str = ""

-----------------------------------------------------------------------------
(* Inputs the callers send *)

IdInputs == { UuidText(1), UuidText(2), NotAValidId }
ChoiceInputs == { StrChoice("yes"), StrChoice("no"), StrChoice("a"), StrChoice("0"),
                  StrChoice("1"), StrChoice(""), NoChoice, BadBody }
HeaderInputs == { Null, Some("s1"), Some("s2") }
\* The header on the requests that only register the session
VisitorHeaderInputs == { Null, Some("s1") }

\* A room code as typed: its characters
Code(a, b, c, d, e, f) == <<a, b, c, d, e, f>>

\* The code a request carries, or holds in roomCode
CodeText(code) == [code |-> code]
CodeInputs == { Code("A", "B", "C", "1", "2", "3"), Code("a", "b", "c", "1", "2", "3"),
                Code("Z", "Z", "Z", "9", "9", "9"), <<"A", "B">> }

\* The bodies of the poll-creation requests
PollBody(roomId, question, pollType, options) ==
  [roomId |-> roomId, question |-> question, pollType |-> pollType, options |-> options]

PollBodyInputs ==
  { PollBody(Some(1), "Ready?", "yes_no", Null),
    PollBody(Some(1), "Ready?", "rating", Some(<< NumOpt("min", 1), NumOpt("max", 2) >>)),
    PollBody(Some(1), "Ready?", "rating", Some(<< NumOpt("min", 0), NumOpt("max", 2) >>)),
    PollBody(Some(1), "Ready?", "rating", Some(<< NumOpt("min", 2), NumOpt("max", 1) >>)),
    PollBody(Some(1), "Ready?", "rating", Some(<< NumStrOpt("min", 10), NumStrOpt("max", 9) >>)),
    PollBody(Some(1), "Ready?", "rating", Null),
    PollBody(Some(1), "Ready?", "multiple_choice",
             Some(<< StrOpt("a", "Option A"), StrOpt("b", "Option B") >>)),
    PollBody(Some(1), "Ready?", "multiple_choice", Some(<< StrOpt("a", "Option A") >>)),
    PollBody(Some(1), "Ready?", "multiple_choice",
             Some(<< StrOpt("a", "A"), StrOpt("b", "B"), StrOpt("c", "C"), StrOpt("d", "D"),
                     StrOpt("e", "E"), StrOpt("f", "F") >>)),
    PollBody(Some(1), "Ready?", "multiple_choice", Null),
    PollBody(Some(1), "Ready?", "ranking", Null),
    PollBody(Some(1), "", "yes_no", Null),
    PollBody(Null, "Ready?", "yes_no", Null),
    PollBody(Some(9), "Ready?", "yes_no", Null) }

\* What a call to the session store does: it writes, it is skipped because the
\* store is not configured (getKvClientSafe returns null), or setex throws.
KvOutcomes == { "ok", "unconfigured", "throw" }

-----------------------------------------------------------------------------
(* SessionManager.createSession *)

\* A store that keeps the role a session already has
SetSessionKeepingRole(sid, roomCode, role) ==
  { e \in sessions : e.id # sid }
    \cup { [id |-> sid, roomCode |-> roomCode, createdAt |-> now,
            role |-> IF \E e \in sessions : e.id = sid
                     THEN (CHOOSE e \in sessions : e.id = sid).role ELSE role] }

\* setex(session:<id>, ttl, data) replaces the whole entry of that session; the
\* data are the id, createdAt and lastActivity of now, and the metadata
SetSession(sid, roomCode, role) ==
  { e \in sessions : e.id # sid }
    \cup { [id |-> sid, roomCode |-> roomCode, role |-> role, createdAt |-> now] }

createSession(sid, roomCode, role, kv) ==
  sessions' = IF kv = "ok" THEN SetSession(sid, roomCode, role) ELSE sessions

-----------------------------------------------------------------------------
(* POST /polls/{id}/vote *)

VoteData(row) == [kind |-> "vote", poll_id |-> row.poll_id, choice |-> row.choice]

\* The checks without the one on is_active
VoteChecksIgnoringActive(j, choice, t) ==
  IF RoomExpired(j.rooms.expires_at, t)
  THEN Response(410, "Room expired", "The room containing this poll has expired", NoData)
  ELSE IF ~includes(validChoices(j.poll), choice.str)
  THEN Response(400, "Invalid choice",
                "Choice must be one of: " \o join(validChoices(j.poll), ", "), NoData)
  ELSE Response(0, "pass", "", NoData)

\* The checks that follow the poll lookup, in the order the handler makes them;
\* "pass" when the vote may go on to the duplicate check.
VoteChecks(j, choice, t) ==
  IF ~j.poll.is_active
  THEN Response(410, "Poll inactive", "This poll is no longer accepting votes", NoData)
  ELSE IF RoomExpired(j.rooms.expires_at, t)
  THEN Response(410, "Room expired", "The room containing this poll has expired", NoData)
  ELSE IF ~includes(validChoices(j.poll), choice.str)
  THEN Response(400, "Invalid choice",
                "Choice must be one of: " \o join(validChoices(j.poll), ", "), NoData)
  ELSE Response(0, "pass", "", NoData)

\* From the start of the handler to the end of the code that follows the poll lookup.
VoteLookup(r) ==
  /\ Free(r)
  /\ \E id \in IdInputs, choice \in ChoiceInputs, header \in HeaderInputs, dbFails \in BOOLEAN :
       LET sid == SessionIdOf(header, r)
           rq  == [Idle EXCEPT !.op = "vote", !.id = id, !.sid = sid, !.choice = choice]
           early == [rq EXCEPT !.sid = ""]
           found == PollWithRoom(id)
       IN IF choice = BadBody
          THEN /\ ~dbFails /\ header = Null
               /\ Return(r, early,
                         Response(500, "Internal server error",
                                  "An unexpected error occurred while processing the vote",
                                  NoData), "body")
          ELSE IF ~uuidRegexTest(id)
          THEN /\ ~dbFails /\ header = Null
               /\ Return(r, early,
                         Response(400, "Invalid poll ID", "Poll ID must be a valid UUID", NoData),
                         "none")
          ELSE IF ChoiceMissing(choice)
          THEN /\ ~dbFails /\ header = Null
               /\ Return(r, early,
                         Response(400, "Invalid choice",
                                  "Choice is required and must be a string", NoData), "none")
          ELSE IF dbFails
          THEN /\ header = Null
               /\ Return(r, Called(early),
                         Response(500, "Database error",
                                  "Failed to look up poll in database", NoData), "db")
          ELSE IF found = {}
          THEN /\ header = Null
               /\ Return(r, Called(early),
                         Response(404, "Poll not found", "No poll exists with this ID", NoData),
                         "none")
          ELSE LET j == CHOOSE x \in found : TRUE
                   res == VoteChecks(j, choice, now)
               IN IF res.error # "pass"
                  THEN /\ header = Null
                       /\ Return(r, Called(early), res, "none")
                  ELSE req' = [req EXCEPT ![r] = [Called(rq) EXCEPT !.pc = "check", !.found = j,
                                                           !.late = (VotesOf(id.key, sid) # {})]]
  /\ UNCHANGED <<rooms, polls, votes, sessions, now, pollSeq, hook>>

\* A duplicate check that never finds the earlier vote
existingVoteOverlooked(pollId, sessionId) == {}

\* select id from votes where poll_id = id and session_id = sessionId
existingVote(pollId, sessionId) == VotesOf(pollId, sessionId)

\* A duplicate check that registers the session of the vote it rejects
VoteCheckRegisteringSession(r) ==
  /\ req[r].pc = "check" /\ req[r].op = "vote"
  /\ IF existingVote(req[r].id.key, req[r].sid) # {}
     THEN /\ Return(r, Called(req[r]),
                    Response(409, "Already voted",
                             "You have already voted on this poll", NoData), "none")
          /\ createSession(req[r].sid, req[r].found.rooms.code, "participant", "ok")
     ELSE /\ req' = [req EXCEPT ![r] = [Called(req[r]) EXCEPT !.pc = "insert"]]
          /\ UNCHANGED sessions
  /\ UNCHANGED <<rooms, polls, votes, now, pollSeq, hook>>

\* The existing-vote lookup and the code that follows it.
VoteCheck(r) ==
  /\ req[r].pc = "check" /\ req[r].op = "vote"
  /\ \E dbFails \in BOOLEAN :
       IF dbFails
       THEN Return(r, Called(req[r]), Response(500, "Database error",
                                               "Failed to check existing vote", NoData), "db")
       ELSE IF existingVote(req[r].id.key, req[r].sid) # {}
       THEN Return(r, Called(req[r]),
                   Response(409, "Already voted",
                            "You have already voted on this poll", NoData), "none")
       ELSE req' = [req EXCEPT ![r] = [Called(req[r]) EXCEPT !.pc = "insert"]]
  /\ UNCHANGED <<rooms, polls, votes, sessions, now, pollSeq, hook>>

\* The insert and the code that follows it.
VoteInsert(r) ==
  /\ req[r].pc = "insert" /\ req[r].op = "vote"
  /\ LET row == [poll_id |-> req[r].id.key, session_id |-> req[r].sid,
                 choice |-> req[r].choice.str]
         failed == Response(500, "Database error", "Failed to create vote in database", NoData)
     IN \E dbFails \in BOOLEAN :
          IF dbFails
          THEN Return(r, Called(req[r]), failed, "db") /\ UNCHANGED votes
          ELSE IF ForeignKeyViolation(row)
          THEN Return(r, Called(req[r]), failed, "fk") /\ UNCHANGED votes
          ELSE IF UniqueViolation(row)
          THEN Return(r, Called(req[r]), failed, "unique") /\ UNCHANGED votes
          ELSE /\ votes' = votes (+) SetToBag({row})
               /\ req' = [req EXCEPT ![r] = [Called(req[r]) EXCEPT !.pc = "session"]]
  /\ UNCHANGED <<rooms, polls, sessions, now, pollSeq, hook>>

\* The session upsert and the response.
VoteSession(r) ==
  /\ req[r].pc = "session" /\ req[r].op = "vote"
  /\ \E kv \in KvOutcomes :
       /\ createSession(req[r].sid, req[r].found.rooms.code, "participant", kv)
       /\ IF kv = "throw"
          THEN Return(r, Called(req[r]),
                      Response(500, "Internal server error",
                               "An unexpected error occurred while processing the vote",
                               NoData), "kv")
          ELSE Return(r, IF kv = "ok" THEN Called(req[r]) ELSE req[r],
                      Response(201, "", "",
                               VoteData([poll_id |-> req[r].id.key,
                                         choice |-> req[r].choice.str])), "none")
  /\ UNCHANGED <<rooms, polls, votes, now, pollSeq, hook>>

-----------------------------------------------------------------------------
(* GET /polls/{id} *)

PollData(j) ==
  [kind |-> "poll", id |-> j.poll.id, room_id |-> j.poll.room_id,
   question |-> j.poll.question, poll_type |-> j.poll.poll_type,
   options |-> j.poll.options, is_active |-> j.poll.is_active,
   room |-> [id |-> j.rooms.id, code |-> j.rooms.code, expires_at |-> j.rooms.expires_at]]

\* From the start of the handler to the end of the code that follows the poll lookup.
PollLookup(r) ==
  /\ Free(r)
  /\ \E id \in IdInputs, header \in VisitorHeaderInputs, dbFails \in BOOLEAN :
       LET rq == [Idle EXCEPT !.op = "poll", !.id = id]
           found == PollWithRoom(id)
       IN IF ~uuidRegexTest(id)
          THEN /\ ~dbFails /\ header = Null
               /\ Return(r, rq, Response(400, "Invalid poll ID",
                                         "Poll ID must be a valid UUID", NoData), "none")
          ELSE IF dbFails
          THEN /\ header = Null
               /\ Return(r, Called(rq), Response(500, "Database error",
                                         "Failed to look up poll in database", NoData), "db")
          ELSE IF found = {}
          THEN /\ header = Null
               /\ Return(r, Called(rq), Response(404, "Poll not found",
                                         "No poll exists with this ID", NoData), "none")
          ELSE LET j == CHOOSE x \in found : TRUE
               IN IF RoomExpired(j.rooms.expires_at, now)
                  THEN /\ header = Null
                       /\ Return(r, Called(rq), Response(410, "Room expired",
                                    "The room containing this poll has expired", NoData), "none")
                  ELSE req' = [req EXCEPT ![r] = [Called(rq) EXCEPT !.pc = "session", !.found = j,
                                                           !.sid = SessionIdOf(header, r)]]
  /\ UNCHANGED <<rooms, polls, votes, sessions, now, pollSeq, hook>>

\* The session upsert and the response.
PollSession(r) ==
  /\ req[r].pc = "session" /\ req[r].op = "poll"
  /\ \E kv \in KvOutcomes :
       /\ createSession(req[r].sid, req[r].found.rooms.code, "participant", kv)
       /\ IF kv = "throw"
          THEN Return(r, Called(req[r]),
                      Response(500, "Internal server error",
                               "An unexpected error occurred while looking up the poll",
                               NoData), "kv")
          ELSE Return(r, IF kv = "ok" THEN Called(req[r]) ELSE req[r], Response(200, "", "", PollData(req[r].found)), "none")
  /\ UNCHANGED <<rooms, polls, votes, now, pollSeq, hook>>

-----------------------------------------------------------------------------
(* GET /polls/{id}/results *)

\* The arithmetic of votePercentages is that of JavaScript numbers: IEEE 754
\* doubles.  A positive double is its 53 significand bits m, most significant
\* first (m[1] = 1), and the exponent e of m[1]: its value is the sum of
\* m[i] * 2^(e - i + 1).
SignificandBits == 53

\* The width of the pieces the exact product below is computed in
LimbBits == 20

\* The number of binary digits of a natural number below 2^30
BitLength(n) == CHOOSE L \in 0..30 : n < 2^L /\ (L = 0 \/ n >= 2^(L - 1))

\* The binary digits of n, most significant first, in the given width
BitsIn(n, width) == [i \in 1..width |-> (n \div 2^(width - i)) % 2]
BitsOf(n) == BitsIn(n, BitLength(n))

RECURSIVE ValueOf(_)
\* The number a sequence of at most 30 binary digits writes
ValueOf(bits) ==
  IF Len(bits) = 0 THEN 0
  ELSE IF Len(bits) = 1 THEN bits[1]
  ELSE LET h == Len(bits) \div 2
       IN ValueOf(SubSeq(bits, 1, h)) * 2^(Len(bits) - h) + ValueOf(SubSeq(bits, h + 1, Len(bits)))

\* bits + 1; one bit longer when every bit was 1
Increment(bits) ==
  LET zeros == { i \in 1..Len(bits) : bits[i] = 0 }
  IN IF zeros = {} THEN <<1>> \o [i \in 1..Len(bits) |-> 0]
     ELSE LET j == CHOOSE i \in zeros : \A k \in zeros : k <= i
          IN [i \in 1..Len(bits) |-> IF i < j THEN bits[i] ELSE IF i = j THEN 1 ELSE 0]

\* Round to nearest, ties to even: bits (at least 53, bits[1] = 1 of exponent e) and
\* whether anything non-zero follows them
RoundToDouble(bits, e, sticky) ==
  LET keep == SubSeq(bits, 1, SignificandBits)
      rest == SubSeq(bits, SignificandBits + 1, Len(bits))
      half == Len(rest) > 0 /\ rest[1] = 1
      above == half /\ (sticky \/ \E i \in 2..Len(rest) : rest[i] = 1)
      up == above \/ (half /\ ~above /\ keep[SignificandBits] = 1)
      inc == Increment(keep)
  IN IF ~up THEN [m |-> keep, e |-> e]
     ELSE IF Len(inc) > SignificandBits
     THEN [m |-> SubSeq(inc, 1, SignificandBits), e |-> e + 1]
     ELSE [m |-> inc, e |-> e]

\* 2^i modulo t, for i up to 60
PowerMod(i, t) == IF i <= 30 THEN (2^i) % t ELSE (((2^30) % t) * ((2^(i - 30)) % t)) % t

\* The remainder left after n binary digits of rem / t
RemainderAfter(rem, t, n) == (rem * PowerMod(n, t)) % t

\* The next n binary digits of rem / t, for rem < t
QuotientBits(rem, t, n) ==
  [i \in 1..n |-> IF 2 * RemainderAfter(rem, t, i - 1) >= t THEN 1 ELSE 0]

RECURSIVE LeadingShift(_, _)
\* The least k with c * 2^k >= t
LeadingShift(c, t) == IF c >= t THEN 0 ELSE 1 + LeadingShift(2 * c, t)

\* count / total, for 0 < count <= total
Divide(c, t) ==
  LET k == LeadingShift(c, t)
      rem == c * 2^k - t
  IN RoundToDouble(<<1>> \o QuotientBits(rem, t, SignificandBits), 0 - k,
                   RemainderAfter(rem, t, SignificandBits) # 0)

\* bits * n exactly, for 53 bits and n below 2^10: the product of each piece,
\* the carries passed upward
TimesSmall(bits, n) ==
  LET len == Len(bits)
      lo  == ValueOf(SubSeq(bits, len - LimbBits + 1, len)) * n
      mid == ValueOf(SubSeq(bits, len - 2 * LimbBits + 1, len - LimbBits)) * n
               + lo \div 2^LimbBits
      top == ValueOf(SubSeq(bits, 1, len - 2 * LimbBits)) * n + mid \div 2^LimbBits
  IN BitsOf(top) \o BitsIn(mid % 2^LimbBits, LimbBits) \o BitsIn(lo % 2^LimbBits, LimbBits)

\* x * 100
TimesHundred(x) ==
  LET product == TimesSmall(x.m, 100)
  IN RoundToDouble(product, x.e + (Len(product) - SignificandBits), FALSE)

\* Math.round(x), for a positive x below 2^30: the integer part, plus one when the
\* fraction is a half or more
MathRound(x) ==
  LET whole == IF x.e >= 0 THEN ValueOf(SubSeq(x.m, 1, x.e + 1)) ELSE 0
      half == IF x.e + 2 >= 1 THEN x.m[x.e + 2] ELSE 0
  IN whole + half

\* Math.round((count / total) * 100), for total > 0
RoundPercent(count, total) ==
  IF count = 0 THEN 0 ELSE MathRound(TimesHundred(Divide(count, total)))

\* The keys the vote counts are initialised for
countKeys(poll) ==
  CASE poll.poll_type = "yes_no" -> <<"yes", "no">>
    [] poll.poll_type = "rating" ->
         RatingKeys(NumberOr(poll.options, "min", 1), NumberOr(poll.options, "max", 5))
    [] poll.poll_type = "multiple_choice" -> ObjectKeys(poll.options)
    [] OTHER -> ObjectKeys(poll.options)

\* Result keys that ignore the stored bounds of a rating poll
formatKeysFixedRange(poll) ==
  CASE poll.poll_type = "yes_no" -> <<"yes", "no">>
    [] poll.poll_type = "rating" -> RatingKeys(1, 5)
    [] OTHER -> ObjectKeys(poll.options)

\* The keys the formatted results are built for
formatKeys(poll) ==
  CASE poll.poll_type = "yes_no" -> <<"yes", "no">>
    [] poll.poll_type = "rating" ->
         RatingKeys(NumberOr(poll.options, "min", 1), NumberOr(poll.options, "max", 5))
    [] poll.poll_type = "multiple_choice" -> ObjectKeys(poll.options)
    [] OTHER -> ObjectKeys(poll.options)

\* String(options[k])
OptionString(e) == IF e.kind = "number" THEN toString(e.num) ELSE e.str

\* String(options[k] || dflt): undefined, 0 and "" are falsy
OptionStringOr(options, k, dflt) ==
  LET truthy(e) == IF e.kind = "number" THEN e.num # 0 ELSE e.str # ""
  IN IF HasKey(options, k) /\ truthy(Entry(options, k))
     THEN OptionString(Entry(options, k))
     ELSE dflt

labelOf(poll, k) ==
  CASE poll.poll_type = "yes_no" -> OptionStringOr(poll.options, k, IF k = "yes" THEN "Yes" ELSE "No")
    [] poll.poll_type = "rating" -> k
    [] OTHER -> OptionString(Entry(poll.options, k))

\* votes.forEach: a vote counts for its choice when the choice is a counted key
voteCount(poll, rows, k) ==
  IF includes(countKeys(poll), k)
  THEN LET hits == { v \in BagToSet(rows) : v.choice = k }
           RECURSIVE Sum(_)
           Sum(S) == IF S = {} THEN 0
                     ELSE LET v == CHOOSE x \in S : TRUE IN CopiesIn(v, rows) + Sum(S \ {v})
       IN Sum(hits)
  ELSE 0

formattedResults(poll, rows) ==
  LET total == BagCardinality(rows)
      keys == { formatKeys(poll)[i] : i \in 1..Len(formatKeys(poll)) }
  IN [k \in keys |->
        [label |-> labelOf(poll, k),
         count |-> voteCount(poll, rows, k),
         percentage |-> IF total > 0 /\ includes(countKeys(poll), k)
                        THEN RoundPercent(voteCount(poll, rows, k), total) ELSE 0]]

ResultsData(j, rows) ==
  [kind |-> "results", poll_id |-> j.poll.id, question |-> j.poll.question,
   poll_type |-> j.poll.poll_type, total_votes |-> BagCardinality(rows),
   results |-> formattedResults(j.poll, rows),
   room |-> [id |-> j.rooms.id, code |-> j.rooms.code]]

\* votes filtered by poll_id
VotesOfPoll(pollId) ==
  LET S == { v \in BagToSet(votes) : v.poll_id = pollId }
  IN [v \in S |-> CopiesIn(v, votes)]

\* From the start of the handler to the end of the code that follows the poll lookup.
ResultsLookup(r) ==
  /\ Free(r)
  /\ \E id \in IdInputs, dbFails \in BOOLEAN :
       LET rq == [Idle EXCEPT !.op = "results", !.id = id]
           found == PollWithRoom(id)
       IN IF ~uuidRegexTest(id)
          THEN /\ ~dbFails
               /\ Return(r, rq, Response(400, "Invalid poll ID",
                                         "Poll ID must be a valid UUID", NoData), "none")
          ELSE IF dbFails
          THEN Return(r, Called(rq), Response(500, "Database error",
                                      "Failed to look up poll in database", NoData), "db")
          ELSE IF found = {}
          THEN Return(r, Called(rq), Response(404, "Poll not found",
                                      "No poll exists with this ID", NoData), "none")
          ELSE LET j == CHOOSE x \in found : TRUE
               IN IF RoomExpired(j.rooms.expires_at, now)
                  THEN Return(r, Called(rq), Response(410, "Room expired",
                                   "The room containing this poll has expired", NoData), "none")
                  ELSE req' = [req EXCEPT ![r] = [Called(rq) EXCEPT !.pc = "fetch", !.found = j]]
  /\ UNCHANGED <<rooms, polls, votes, sessions, now, pollSeq, hook>>

\* A results handler that also registers a session for the reader
ResultsFetchRegisteringSession(r) ==
  /\ req[r].pc = "fetch" /\ req[r].op = "results"
  /\ Return(r, [Called(req[r]) EXCEPT !.rows = VotesOfPoll(req[r].id.key)],
            Response(200, "", "", ResultsData(req[r].found, VotesOfPoll(req[r].id.key))),
            "none")
  /\ createSession(MintedId(r), req[r].found.rooms.code, "participant", "ok")
  /\ UNCHANGED <<rooms, polls, votes, now, pollSeq, hook>>

\* A results handler that takes a failed votes query for an empty ledger
ResultsFetchSwallowingFailure(r) ==
  /\ req[r].pc = "fetch" /\ req[r].op = "results"
  /\ \E dbFails \in BOOLEAN :
       IF dbFails
       THEN Return(r, Called(req[r]),
                   Response(200, "", "", ResultsData(req[r].found, EmptyBag)), "db")
       ELSE Return(r, [Called(req[r]) EXCEPT !.rows = VotesOfPoll(req[r].id.key)],
                   Response(200, "", "", ResultsData(req[r].found, VotesOfPoll(req[r].id.key))),
                   "none")
  /\ UNCHANGED <<rooms, polls, votes, sessions, now, pollSeq, hook>>

\* The votes query, the aggregation and the response.
ResultsFetch(r) ==
  /\ req[r].pc = "fetch" /\ req[r].op = "results"
  /\ \E dbFails \in BOOLEAN :
       IF dbFails
       THEN Return(r, Called(req[r]), Response(500, "Database error",
                                       "Failed to get poll results from database", NoData), "db")
       ELSE Return(r, [Called(req[r]) EXCEPT !.rows = VotesOfPoll(req[r].id.key)],
                   Response(200, "", "", ResultsData(req[r].found, VotesOfPoll(req[r].id.key))),
                   "none")
  /\ UNCHANGED <<rooms, polls, votes, sessions, now, pollSeq, hook>>

-----------------------------------------------------------------------------
(* POST /polls *)

\* options?.[k] || dflt, for the two labels of a yes_no poll
LabelOr(options, k, dflt) ==
  IF options # Null /\ HasKey(options[1], k) /\ Entry(options[1], k).kind = "string"
     /\ Entry(options[1], k).str # ""
  THEN StrOpt(k, Entry(options[1], k).str)
  ELSE StrOpt(k, dflt)

\* !options?.[k] : options is null, or the field is absent, 0 or ""
FieldFalsy(options, k) ==
  \/ options = Null
  \/ ~HasKey(options[1], k)
  \/ Entry(options[1], k).kind = "number" /\ Entry(options[1], k).num = 0
  \/ Entry(options[1], k).kind = "string" /\ Entry(options[1], k).str = ""

InvalidOptions(details) == Response(400, "Invalid options", details, NoData)

\* a >= b of the language, for two values of a JSON body: two strings are
\* compared as strings; otherwise both are converted to numbers, and the
\* comparison with NaN (a string that is no number) is false
GreaterOrEqual(a, b) ==
  IF a.kind = "numeric_string" /\ b.kind = "numeric_string"
  THEN ~DigitsLess(NatDigits(a.num), NatDigits(b.num))
  ELSE IF a.kind = "string" \/ b.kind = "string"
  THEN FALSE
  ELSE a.num >= b.num

\* The request validation: a rejection, or "pass" with the options to store in data
ValidatePoll(roomId, question, pollType, options) ==
  IF roomId = Null \/ question = "" \/ pollType = ""
  THEN Response(400, "Invalid input", "roomId, question, and pollType are required", NoData)
  ELSE IF pollType \notin {"yes_no", "rating", "multiple_choice"}
  THEN Response(400, "Invalid poll type",
                "pollType must be one of: yes_no, rating, multiple_choice", NoData)
  ELSE IF pollType = "yes_no"
  THEN Response(0, "pass", "", << LabelOr(options, "yes", "Yes"), LabelOr(options, "no", "No") >>)
  ELSE IF pollType = "rating"
  THEN IF FieldFalsy(options, "min") \/ FieldFalsy(options, "max")
       THEN InvalidOptions("rating polls require min and max values")
       ELSE IF GreaterOrEqual(Entry(options[1], "min"), Entry(options[1], "max"))
       THEN InvalidOptions("min value must be less than max value")
       ELSE Response(0, "pass", "", << [Entry(options[1], "min") EXCEPT !.key = "min"],
                                       [Entry(options[1], "max") EXCEPT !.key = "max"] >>)
  ELSE IF options = Null \/ Len(options[1]) < 2
  THEN InvalidOptions("multiple_choice polls require at least 2 options")
  ELSE Response(0, "pass", "", options[1])

CreatedPollData(row) ==
  [kind |-> "created_poll", id |-> row.id, room_id |-> row.room_id, question |-> row.question,
   poll_type |-> row.poll_type, options |-> row.options, is_active |-> row.is_active]

\* From the start of the handler to the end of the code that follows the room lookup.
CreatePollLookup(r) ==
  /\ Free(r)
  /\ \E body \in PollBodyInputs, header \in VisitorHeaderInputs, dbFails \in BOOLEAN :
       LET roomId == body.roomId
           question == body.question
           pollType == body.pollType
           options == body.options
           rq == [Idle EXCEPT !.op = "create_poll", !.id = body]
           checked == ValidatePoll(roomId, question, pollType, options)
           room == { x \in rooms : roomId # Null /\ x.id = roomId[1] }
       IN IF checked.error # "pass"
          THEN /\ ~dbFails /\ header = Null
               /\ Return(r, rq, checked, "none")
          ELSE IF dbFails \/ room = {}
          THEN /\ header = Null
               /\ Return(r, Called(rq), Response(404, "Room not found",
                                         "The specified room does not exist", NoData),
                         IF dbFails THEN "db" ELSE "none")
          ELSE req' = [req EXCEPT ![r] =
                         [Called(rq) EXCEPT !.pc = "insert", !.sid = SessionIdOf(header, r),
                                    !.found = [kind |-> "new_poll",
                                               rooms |-> CHOOSE x \in room : TRUE,
                                               poll |-> [room_id |-> roomId[1],
                                                         question |-> question,
                                                         poll_type |-> pollType,
                                                         options |-> checked.data,
                                                         is_active |-> TRUE]]]]
  /\ UNCHANGED <<rooms, polls, votes, sessions, now, pollSeq, hook>>

\* The insert and the code that follows it.
CreatePollInsert(r) ==
  /\ req[r].pc = "insert" /\ req[r].op = "create_poll"
  /\ pollSeq < MaxPolls
  /\ LET p == req[r].found.poll
         row == [id |-> pollSeq + 1, room_id |-> p.room_id, question |-> p.question,
                 poll_type |-> p.poll_type, options |-> p.options, is_active |-> p.is_active]
         failed == Response(500, "Database error", "Failed to create poll in database", NoData)
     IN \E dbFails \in BOOLEAN :
          IF dbFails
          THEN Return(r, Called(req[r]), failed, "db") /\ UNCHANGED <<polls, pollSeq>>
          ELSE IF \A x \in rooms : x.id # row.room_id
          THEN Return(r, Called(req[r]), failed, "fk") /\ UNCHANGED <<polls, pollSeq>>
          ELSE /\ polls' = polls \cup {row}
               /\ pollSeq' = pollSeq + 1
               /\ req' = [req EXCEPT ![r] = [Called(req[r]) EXCEPT !.pc = "session",
                                                                  !.found.poll = row]]
  /\ UNCHANGED <<rooms, votes, sessions, now, hook>>

\* The session upsert and the response.
CreatePollSession(r) ==
  /\ req[r].pc = "session" /\ req[r].op = "create_poll"
  /\ \E kv \in KvOutcomes :
       /\ createSession(req[r].sid, req[r].found.rooms.code, "creator", kv)
       /\ IF kv = "throw"
          THEN Return(r, Called(req[r]),
                      Response(500, "Internal server error",
                               "An unexpected error occurred while creating the poll",
                               NoData), "kv")
          ELSE Return(r, IF kv = "ok" THEN Called(req[r]) ELSE req[r], Response(201, "", "", CreatedPollData(req[r].found.poll)),
                      "none")
  /\ UNCHANGED <<rooms, polls, votes, now, pollSeq, hook>>

-----------------------------------------------------------------------------
(* DELETE /rooms/{code} *)

UpperAlnum == { "A", "B", "C", "Z", "1", "2", "3", "9" }

\* typeof code === 'string' && code.length === 6 && /^[A-Z0-9]+$/.test(code)
validateRoomCode(code) == Len(code) = 6 /\ \A i \in 1..Len(code) : code[i] \in UpperAlnum

toUpperCase(c) ==
  CASE c = "a" -> "A" [] c = "b" -> "B" [] c = "c" -> "C" [] c = "z" -> "Z" [] OTHER -> c

\* code.toUpperCase().trim()
normalizeRoomCode(code) == [i \in 1..Len(code) |-> toUpperCase(code[i])]

\* From the start of the handler to the end of the code that follows the room lookup.
DeleteRoomLookup(r) ==
  /\ Free(r)
  /\ \E code \in CodeInputs, dbFails \in BOOLEAN :
       LET rq == [Idle EXCEPT !.op = "delete_room", !.id = CodeText(code)]
           room == { x \in rooms : x.code = normalizeRoomCode(code) }
       IN IF ~validateRoomCode(code)
          THEN /\ ~dbFails
               /\ Return(r, rq, Response(400, "Invalid room code",
                            "Room code must be exactly 6 alphanumeric characters", NoData), "none")
          ELSE IF dbFails
          THEN Return(r, Called(rq), Response(500, "Database error",
                                      "Failed to look up room in database", NoData), "db")
          ELSE IF room = {}
          THEN Return(r, Called(rq), Response(404, "Room not found",
                                      "No room exists with this code", NoData), "none")
          ELSE req' = [req EXCEPT ![r] =
                         [Called(rq) EXCEPT !.pc = "delete",
                                    !.found = [kind |-> "room", rooms |-> CHOOSE x \in room : TRUE]]]
  /\ UNCHANGED <<rooms, polls, votes, sessions, now, pollSeq, hook>>

\* delete from rooms where id = room.id, with ON DELETE CASCADE to polls and votes
CascadeDelete(roomId) ==
  LET gone == { p.id : p \in { q \in polls : q.room_id = roomId } }
      kept == { v \in BagToSet(votes) : v.poll_id \notin gone }
  IN /\ rooms' = { x \in rooms : x.id # roomId }
     /\ polls' = { p \in polls : p.room_id # roomId }
     /\ votes' = [v \in kept |-> CopiesIn(v, votes)]

\* The delete and the response.
DeleteRoomDelete(r) ==
  /\ req[r].pc = "delete" /\ req[r].op = "delete_room"
  /\ \E dbFails \in BOOLEAN :
       IF dbFails
       THEN /\ Return(r, Called(req[r]), Response(500, "Database error",
                                          "Failed to delete room from database", NoData), "db")
            /\ UNCHANGED <<rooms, polls, votes>>
       ELSE /\ CascadeDelete(req[r].found.rooms.id)
            /\ Return(r, Called(req[r]), [success |-> TRUE, status |-> 200,
                                  message |-> "Room deleted successfully"], "none")
  /\ UNCHANGED <<sessions, now, pollSeq, hook>>

-----------------------------------------------------------------------------
(* useRealtimeVotes: the client hook that watches one poll *)

\* The pollId the component passes to the hook
WatchedPoll == UuidText(1)

\* useState(null), useState(true), useState(null), before the effect has run
Unmounted ==
  [status |-> "unmounted", cursor |-> 0, fetches |-> <<>>, results |-> NoData,
   error |-> Null, loading |-> TRUE]

\* The rows of the watched poll that the change feed has to tell of
FeedLength == BagCardinality(VotesOfPoll(WatchedPoll.key))

\* fetch(`/api/polls/${pollId}/results`): one more request on its way
fetchResults(h) == [h EXCEPT !.fetches = Append(@, [pc |-> "sent", res |-> NoResponse])]

\* What GET /polls/{id}/results answers when its reads are made now
GetResults(id, dbFails) ==
  LET found == PollWithRoom(id)
      j == CHOOSE x \in found : TRUE
  IN IF ~uuidRegexTest(id)
     THEN Response(400, "Invalid poll ID", "Poll ID must be a valid UUID", NoData)
     ELSE IF dbFails
     THEN Response(500, "Database error", "Failed to get poll results from database", NoData)
     ELSE IF found = {}
     THEN Response(404, "Poll not found", "No poll exists with this ID", NoData)
     ELSE IF RoomExpired(j.rooms.expires_at, now)
     THEN Response(410, "Room expired", "The room containing this poll has expired", NoData)
     ELSE Response(200, "", "", ResultsData(j, VotesOfPoll(id.key)))

\* The effect runs: the initial fetch is sent and the channel asks to join.
HookMount ==
  /\ hook.status = "unmounted"
  /\ hook' = [fetchResults(hook) EXCEPT !.status = "joining"]
  /\ UNCHANGED <<rooms, polls, votes, sessions, now, req, pollSeq>>

\* The subscribe callback: the channel has joined, and the feed tells of the
\* changes made from now on; or the channel failed and the error is set.
HookSubscribed ==
  /\ hook.status = "joining"
  /\ \/ hook' = [hook EXCEPT !.status = "SUBSCRIBED", !.cursor = FeedLength]
     \/ hook' = [hook EXCEPT !.status = "CHANNEL_ERROR",
                             !.error = Some("Failed to connect to real-time updates")]
  /\ UNCHANGED <<rooms, polls, votes, sessions, now, req, pollSeq>>

\* The INSERT callback: the feed tells of one more row, and the hook refetches.
HookVoteReceived ==
  /\ hook.status = "SUBSCRIBED"
  /\ hook.cursor < FeedLength
  /\ hook' = [fetchResults(hook) EXCEPT !.cursor = @ + 1]
  /\ UNCHANGED <<rooms, polls, votes, sessions, now, req, pollSeq>>

\* The server answers one of the requests on their way.
HookFetchServed ==
  /\ \E i \in DOMAIN hook.fetches, dbFails \in BOOLEAN :
       /\ hook.fetches[i].pc = "sent"
       /\ hook' = [hook EXCEPT !.fetches[i] =
                     [pc |-> "answered", res |-> GetResults(WatchedPoll, dbFails)]]
  /\ UNCHANGED <<rooms, polls, votes, sessions, now, req, pollSeq>>

\* A response arrives, whichever request it answers: the code of fetchResults
\* after its awaits.
HookFetchDone ==
  /\ \E i \in DOMAIN hook.fetches :
       /\ hook.fetches[i].pc = "answered"
       /\ LET res == hook.fetches[i].res
              h == [hook EXCEPT !.fetches[i].pc = "done", !.loading = FALSE]
          IN hook' = IF res.status \in 200..299
                     THEN [h EXCEPT !.results = res.data, !.error = Null]
                     ELSE [h EXCEPT !.error = Some(res.error)]
  /\ UNCHANGED <<rooms, polls, votes, sessions, now, req, pollSeq>>

-----------------------------------------------------------------------------
(* The clock *)

Tick ==
  /\ now < MaxTime
  /\ now' = now + 1
  /\ UNCHANGED <<rooms, polls, votes, sessions, req, pollSeq, hook>>

-----------------------------------------------------------------------------
(* Rows the tables may hold: what the schema admits, whoever wrote them *)

YesNoOptions == << StrOpt("yes", "Yes"), StrOpt("no", "No") >>
RatingOptions(min, max) == << NumOpt("min", min), NumOpt("max", max) >>
ChoiceOptions == << StrOpt("a", "Option A"), StrOpt("b", "Option B") >>

PollShapes ==
  { [poll_type |-> "yes_no", options |-> YesNoOptions],
    [poll_type |-> "rating", options |-> RatingOptions(1, 3)],
    [poll_type |-> "rating", options |-> RatingOptions(0, 2)],
    [poll_type |-> "rating", options |-> RatingOptions(-1, 0)],
    [poll_type |-> "multiple_choice", options |-> ChoiceOptions],
    [poll_type |-> "rating", options |-> <<>>],
    [poll_type |-> "ranking", options |-> ChoiceOptions] }

PollRow(id, roomId, shape, active) ==
  [id |-> id, room_id |-> roomId, question |-> "Ready?", poll_type |-> shape.poll_type,
   options |-> shape.options, is_active |-> active]

RoomRow(id, code, expires_at) == [id |-> id, code |-> code, expires_at |-> expires_at]

Init ==
  /\ \E exp \in {Null, Some(0)} : rooms = { RoomRow(1, Code("A", "B", "C", "1", "2", "3"), exp) }
  /\ \E shape \in PollShapes, active \in BOOLEAN : polls = { PollRow(1, 1, shape, active) }
  /\ votes = EmptyBag
  /\ sessions = {}
  /\ now = 0
  /\ req = [r \in Reqs |-> Idle]
  /\ pollSeq = 1
  /\ hook = Unmounted

Next ==
  \/ \E r \in Reqs : VoteLookup(r)
  \/ \E r \in Reqs : VoteCheck(r)
  \/ \E r \in Reqs : VoteInsert(r)
  \/ \E r \in Reqs : VoteSession(r)
  \/ \E r \in Reqs : PollLookup(r)
  \/ \E r \in Reqs : PollSession(r)
  \/ \E r \in Reqs : ResultsLookup(r)
  \/ \E r \in Reqs : ResultsFetch(r)
  \/ \E r \in Reqs : CreatePollLookup(r)
  \/ \E r \in Reqs : CreatePollInsert(r)
  \/ \E r \in Reqs : CreatePollSession(r)
  \/ \E r \in Reqs : DeleteRoomLookup(r)
  \/ \E r \in Reqs : DeleteRoomDelete(r)
  \/ Tick

Spec == Init /\ [][Next]_vars

\* The store as the API alone fills it: a room as POST /rooms creates it (its
\* expiration set), no poll and no vote yet.
InitApi ==
  /\ rooms = { RoomRow(1, Code("A", "B", "C", "1", "2", "3"), Some(0)) }
  /\ polls = {}
  /\ votes = EmptyBag
  /\ sessions = {}
  /\ now = 0
  /\ req = [r \in Reqs |-> Idle]
  /\ pollSeq = 0
  /\ hook = Unmounted

SpecApi == InitApi /\ [][Next]_vars

-----------------------------------------------------------------------------
(* The result aggregator over ledgers of any content *)

MaxMixed == 4
MaxBallots == 40

\* A choice no poll of PollShapes has
LegacyChoice == "old"

\* The choices of a mixed ledger: up to three the validator accepts, and one it does not
LedgerKinds(poll) ==
  SubSeq(validChoices(poll), 1, IF Len(validChoices(poll)) < 3 THEN Len(validChoices(poll)) ELSE 3)
    \o <<LegacyChoice>>

RECURSIVE SumTo(_, _)
SumTo(counts, i) == IF i = 0 THEN 0 ELSE counts[i] + SumTo(counts, i - 1)

\* The rows of a ledger with counts[i] votes for kinds[i], each of its own session
Ballots(pollId, kinds, counts) ==
  SetToBag({ [poll_id |-> pollId, choice |-> kinds[i],
              session_id |-> "v" \o toString(SumTo(counts, i - 1) + n)] :
               <<i, n>> \in { x \in (1..Len(kinds)) \X (1..(MaxMixed + MaxBallots)) :
                                x[2] <= counts[x[1]] } })

InitLedger ==
  /\ rooms = { RoomRow(1, Code("A", "B", "C", "1", "2", "3"), Some(0)) }
  /\ \/ \E shape \in PollShapes :
          /\ polls = { PollRow(1, 1, shape, TRUE) }
          /\ \E counts \in [1..Len(LedgerKinds(PollRow(1, 1, shape, TRUE))) -> 0..MaxMixed] :
               /\ SumTo(counts, Len(counts)) <= MaxMixed
               /\ votes = Ballots(1, LedgerKinds(PollRow(1, 1, shape, TRUE)), counts)
     \/ /\ polls = { PollRow(1, 1, [poll_type |-> "yes_no", options |-> YesNoOptions], TRUE) }
        /\ \E total \in 0..MaxBallots : \E yes \in 0..total :
             votes = Ballots(1, <<"yes", "no">>, <<yes, total - yes>>)
  /\ sessions = {}
  /\ now = 0
  /\ req = [r \in Reqs |-> Idle]
  /\ pollSeq = 1
  /\ hook = Unmounted

\* One caller reading results, and the clock
NextLedger ==
  \/ ResultsLookup(1)
  \/ ResultsFetch(1)
  \/ Tick

SpecLedger == InitLedger /\ [][NextLedger]_vars

-----------------------------------------------------------------------------
(* Voters and readers on a poll that already has votes *)

MaxTallied == 2

\* The ledger holds one vote for each of the first MaxTallied choices of its poll
InitTally ==
  /\ rooms = { RoomRow(1, Code("A", "B", "C", "1", "2", "3"), Some(0)) }
  /\ \E shape \in PollShapes :
       /\ polls = { PollRow(1, 1, shape, TRUE) }
       /\ votes = Ballots(1, LedgerKinds(PollRow(1, 1, shape, TRUE)),
                          [i \in 1..Len(LedgerKinds(PollRow(1, 1, shape, TRUE))) |->
                             IF i <= MaxTallied THEN 1 ELSE 0])
  /\ sessions = {}
  /\ now = 0
  /\ req = [r \in Reqs |-> Idle]
  /\ pollSeq = 1
  /\ hook = Unmounted

NextTally ==
  \/ \E r \in Reqs : VoteLookup(r)
  \/ \E r \in Reqs : VoteCheck(r)
  \/ \E r \in Reqs : VoteInsert(r)
  \/ \E r \in Reqs : VoteSession(r)
  \/ \E r \in Reqs : ResultsLookup(r)
  \/ \E r \in Reqs : ResultsFetch(r)
  \/ Tick

SpecTally == InitTally /\ [][NextTally]_vars

-----------------------------------------------------------------------------
(* POST /rooms *)

\* The codes generateRoomCode returns: any six characters of [A-Z0-9]
GeneratedCodes == { Code("A", "B", "C", "1", "2", "3"), Code("Z", "Z", "Z", "9", "9", "9") }

maxAttempts == 10

\* 24 hours: longer than the clock of the model runs, so longer than any request
RoomLifetime == MaxTime + 1

\* A room that expires at the moment it is created
getRoomExpirationTimeNoHours(t) == Some(t)

\* getRoomExpirationTime(): new Date() with 24 added to its hours
getRoomExpirationTime(t) == Some(t + RoomLifetime)

\* The name in the body of the request
NoName == [kind |-> "undefined", str |-> "", num |-> 0]
StrName(s) == [kind |-> "string", str |-> s, num |-> 0]
NumName(n) == [kind |-> "number", str |-> "", num |-> n]
BadRoomBody == [kind |-> "unparsable", str |-> "", num |-> 0]
NameInputs == { NoName, StrName("Quiz"), StrName(""), NumName(7), NumName(0), BadRoomBody }

\* name && typeof name !== "string"
NameInvalid(name) == name.kind = "number" /\ name.num # 0

\* name || null
NameOrNull(name) == IF name.kind = "string" /\ name.str # "" THEN Some(name.str) ELSE Null

\* uuid_generate_v4() for the room a request inserts
NewRoomId(r) == 10 + r

\* The row an insert into rooms stores: created_at is DEFAULT NOW()
NewRoomRow(id, code, expires_at, created_at) ==
  [id |-> id, code |-> code, expires_at |-> expires_at, created_at |-> created_at]

\* The rooms table without its UNIQUE constraint on code
RoomCodeTakenDropped(code) == FALSE

\* code VARCHAR(6) UNIQUE NOT NULL: would inserting a room of this code violate it?
RoomCodeTaken(code) == \E x \in rooms : x.code = code

RoomData(row, name) ==
  [kind |-> "room", id |-> row.id, code |-> row.code, name |-> name,
   expires_at |-> row.expires_at]

\* A loop that gives up one turn later
RoomCodeAttemptOneMore(r, rq, attempts) ==
  \E roomCode \in GeneratedCodes :
    LET existingRoom == { x \in rooms : x.code = roomCode }
        tried == [Called(rq) EXCEPT !.id = CodeText(roomCode)]
    IN IF existingRoom = {}
       THEN req' = [req EXCEPT ![r] =
                      [tried EXCEPT !.pc = "insert", !.found.attempts = attempts,
                                    !.found.expiresAt = getRoomExpirationTime(now)]]
       ELSE IF attempts > maxAttempts
       THEN Return(r, tried,
                   Response(500, "Room creation failed",
                            "Unable to generate unique room code after multiple attempts",
                            NoData), "none")
       ELSE req' = [req EXCEPT ![r] =
                      [tried EXCEPT !.pc = "generate", !.found.attempts = attempts]]

\* One turn of the loop: a code is generated and looked up.  The error of the
\* lookup is not read: a lookup that fails gives no row, as an unused code does.
\* The code the handler holds in roomCode is kept in the id of the request.
\* When the loop ends with an unused code, expiresAt is computed before the insert
\* is sent.
RoomCodeAttempt(r, rq, attempts) ==
  \E roomCode \in GeneratedCodes, dbFails \in BOOLEAN :
    LET existingRoom == IF dbFails THEN {} ELSE { x \in rooms : x.code = roomCode }
        tried == [Called(rq) EXCEPT !.id = CodeText(roomCode)]
    IN IF existingRoom = {}
       THEN req' = [req EXCEPT ![r] =
                      [tried EXCEPT !.pc = "insert", !.found.attempts = attempts,
                                    !.found.expiresAt = getRoomExpirationTime(now)]]
       ELSE IF attempts >= maxAttempts
       THEN Return(r, tried,
                   Response(500, "Room creation failed",
                            "Unable to generate unique room code after multiple attempts",
                            NoData), "none")
       ELSE req' = [req EXCEPT ![r] =
                      [tried EXCEPT !.pc = "generate", !.found.attempts = attempts]]

\* From the start of the handler to the end of the first turn of the loop.
CreateRoomFirst(r) ==
  /\ Free(r)
  /\ \E name \in NameInputs, header \in VisitorHeaderInputs :
       LET rq == [Idle EXCEPT !.op = "create_room"]
       IN IF name = BadRoomBody
          THEN /\ header = Null
               /\ Return(r, rq, Response(500, "Internal server error",
                                  "An unexpected error occurred while creating the room",
                                  NoData), "body")
          ELSE IF NameInvalid(name)
          THEN /\ header = Null
               /\ Return(r, rq, Response(400, "Invalid input",
                                         "Room name must be a string", NoData), "none")
          ELSE RoomCodeAttempt(r, [rq EXCEPT !.sid = SessionIdOf(header, r),
                                             !.found = [kind |-> "new_room",
                                                        name |-> NameOrNull(name),
                                                        attempts |-> 0,
                                                        expiresAt |-> Null]], 1)
  /\ UNCHANGED <<rooms, polls, votes, sessions, now, pollSeq, hook>>

\* A later turn of the loop.
CreateRoomRetry(r) ==
  /\ req[r].pc = "generate" /\ req[r].op = "create_room"
  /\ RoomCodeAttempt(r, req[r], req[r].found.attempts + 1)
  /\ UNCHANGED <<rooms, polls, votes, sessions, now, pollSeq, hook>>

\* The insert and the code that follows it.
CreateRoomInsert(r) ==
  /\ req[r].pc = "insert" /\ req[r].op = "create_room"
  /\ LET row == NewRoomRow(NewRoomId(r), req[r].id.code, req[r].found.expiresAt, now)
         failed == Response(500, "Database error", "Failed to create room in database", NoData)
     IN \E dbFails \in BOOLEAN :
          IF dbFails
          THEN Return(r, Called(req[r]), failed, "db") /\ UNCHANGED rooms
          ELSE IF RoomCodeTaken(row.code)
          THEN Return(r, Called(req[r]), failed, "unique") /\ UNCHANGED rooms
          ELSE /\ rooms' = rooms \cup {row}
               /\ req' = [req EXCEPT ![r] =
                            [Called(req[r]) EXCEPT !.pc = "session",
                                                   !.found = [kind |-> "new_room",
                                                              name |-> req[r].found.name,
                                                              attempts |-> req[r].found.attempts,
                                                              rooms |-> row]]]
  /\ UNCHANGED <<polls, votes, sessions, now, pollSeq, hook>>

\* The session upsert and the response.
CreateRoomSession(r) ==
  /\ req[r].pc = "session" /\ req[r].op = "create_room"
  /\ \E kv \in KvOutcomes :
       /\ createSession(req[r].sid, req[r].id.code, "creator", kv)
       /\ IF kv = "throw"
          THEN Return(r, Called(req[r]),
                      Response(500, "Internal server error",
                               "An unexpected error occurred while creating the room",
                               NoData), "kv")
          ELSE Return(r, IF kv = "ok" THEN Called(req[r]) ELSE req[r],
                      Response(201, "", "", RoomData(req[r].found.rooms, req[r].found.name)),
                      "none")
  /\ UNCHANGED <<rooms, polls, votes, now, pollSeq, hook>>

-----------------------------------------------------------------------------
(* GET /rooms/{code} *)

FoundRoomData(room) ==
  [kind |-> "room", id |-> room.id, code |-> room.code, expires_at |-> room.expires_at,
   is_expired |-> FALSE]

\* From the start of the handler to the end of the code that follows the room lookup.
GetRoomLookup(r) ==
  /\ Free(r)
  /\ \E code \in CodeInputs, header \in VisitorHeaderInputs, dbFails \in BOOLEAN :
       LET rq == [Idle EXCEPT !.op = "room", !.id = CodeText(code)]
           room == { x \in rooms : x.code = normalizeRoomCode(code) }
       IN IF ~validateRoomCode(code)
          THEN /\ ~dbFails /\ header = Null
               /\ Return(r, rq, Response(400, "Invalid room code",
                            "Room code must be exactly 6 alphanumeric characters", NoData), "none")
          ELSE IF dbFails
          THEN /\ header = Null
               /\ Return(r, Called(rq), Response(500, "Database error",
                                         "Failed to look up room in database", NoData), "db")
          ELSE IF room = {}
          THEN /\ header = Null
               /\ Return(r, Called(rq), Response(404, "Room not found",
                                         "No room exists with this code", NoData), "none")
          ELSE IF RoomExpired((CHOOSE x \in room : TRUE).expires_at, now)
          THEN /\ header = Null
               /\ Return(r, Called(rq), Response(410, "Room expired",
                            "This room has expired and is no longer accessible", NoData), "none")
          ELSE req' = [req EXCEPT ![r] =
                         [Called(rq) EXCEPT !.pc = "session", !.sid = SessionIdOf(header, r),
                                            !.found = [kind |-> "room",
                                                       rooms |-> CHOOSE x \in room : TRUE]]]
  /\ UNCHANGED <<rooms, polls, votes, sessions, now, pollSeq, hook>>

\* The session upsert and the response.
GetRoomSession(r) ==
  /\ req[r].pc = "session" /\ req[r].op = "room"
  /\ \E kv \in KvOutcomes :
       /\ createSession(req[r].sid, normalizeRoomCode(req[r].id.code), "participant", kv)
       /\ IF kv = "throw"
          THEN Return(r, Called(req[r]),
                      Response(500, "Internal server error",
                               "An unexpected error occurred while looking up the room",
                               NoData), "kv")
          ELSE Return(r, IF kv = "ok" THEN Called(req[r]) ELSE req[r],
                      Response(200, "", "", FoundRoomData(req[r].found.rooms)), "none")
  /\ UNCHANGED <<rooms, polls, votes, now, pollSeq, hook>>

-----------------------------------------------------------------------------
(* GET /rooms/{code}/polls *)

\* code.toUpperCase()
upperCased(code) == [i \in 1..Len(code) |-> toUpperCase(code[i])]

\* order("created_at", { ascending: false }): the polls of a set, latest first
RECURSIVE LatestFirst(_)
LatestFirst(S) ==
  IF S = {} THEN <<>>
  ELSE LET latest == CHOOSE p \in S : \A q \in S : q.id <= p.id
       IN <<latest>> \o LatestFirst(S \ {latest})

\* The query without its filter on is_active
AllPollsOf(roomId) == { p \in polls : p.room_id = roomId }

\* select * from polls where room_id = room.id and is_active = true
ActivePollsOf(roomId) == { p \in polls : p.room_id = roomId /\ p.is_active }

PollList(S) == [kind |-> "polls", list |-> LatestFirst(S)]

\* From the start of the handler to the end of the code that follows the room lookup.
RoomPollsLookup(r) ==
  /\ Free(r)
  /\ \E code \in CodeInputs, dbFails \in BOOLEAN :
       LET rq == [Idle EXCEPT !.op = "room_polls", !.id = CodeText(code)]
           room == { x \in rooms : x.code = upperCased(code) }
       IN IF dbFails \/ room = {}
          THEN Return(r, Called(rq), Response(404, "Room not found",
                                      "The specified room does not exist or has expired", NoData),
                      IF dbFails THEN "db" ELSE "none")
          ELSE IF RoomExpired((CHOOSE x \in room : TRUE).expires_at, now)
          THEN Return(r, Called(rq), Response(410, "Room expired",
                           "This room has expired and is no longer accessible", NoData), "none")
          ELSE req' = [req EXCEPT ![r] =
                         [Called(rq) EXCEPT !.pc = "fetch",
                                            !.found = [kind |-> "room",
                                                       rooms |-> CHOOSE x \in room : TRUE]]]
  /\ UNCHANGED <<rooms, polls, votes, sessions, now, pollSeq, hook>>

\* The polls query and the response.
RoomPollsFetch(r) ==
  /\ req[r].pc = "fetch" /\ req[r].op = "room_polls"
  /\ \E dbFails \in BOOLEAN :
       IF dbFails
       THEN Return(r, Called(req[r]), Response(500, "Database error",
                                       "Failed to fetch polls from database", NoData), "db")
       ELSE Return(r, Called(req[r]),
                   Response(200, "", "", PollList(ActivePollsOf(req[r].found.rooms.id))), "none")
  /\ UNCHANGED <<rooms, polls, votes, sessions, now, pollSeq, hook>>

-----------------------------------------------------------------------------
(* Voters and readers on a poll that POST /polls stored *)

\* The poll rows POST /polls stores for the bodies it accepts, in room 1
StoredThroughApi ==
  { [id |-> 1, room_id |-> 1, question |-> body.question, poll_type |-> body.pollType,
     options |-> ValidatePoll(body.roomId, body.question, body.pollType, body.options).data,
     is_active |-> TRUE] :
      body \in { b \in PollBodyInputs :
                   /\ b.roomId = Some(1)
                   /\ ValidatePoll(b.roomId, b.question, b.pollType, b.options).error = "pass" } }

\* The ledger holds up to MaxTallied votes the validator accepted, one for each of
\* the first choices of the poll
InitVoted ==
  /\ rooms = { RoomRow(1, Code("A", "B", "C", "1", "2", "3"), Some(0)) }
  /\ \E poll \in StoredThroughApi, n \in 0..MaxTallied :
       /\ polls = { poll }
       /\ votes = Ballots(1, validChoices(poll),
                          [i \in 1..Len(validChoices(poll)) |-> IF i <= n THEN 1 ELSE 0])
  /\ sessions = {}
  /\ now = 0
  /\ req = [r \in Reqs |-> Idle]
  /\ pollSeq = 1
  /\ hook = Unmounted

SpecVoted == InitVoted /\ [][NextTally]_vars

-----------------------------------------------------------------------------
(* Rooms created beside one another, over the store as the API fills it *)

NextCreateRoom ==
  \/ \E r \in Reqs : CreateRoomFirst(r)
  \/ \E r \in Reqs : CreateRoomRetry(r)
  \/ \E r \in Reqs : CreateRoomInsert(r)
  \/ \E r \in Reqs : CreateRoomSession(r)
  \/ Tick

SpecCreateRoom == InitApi /\ [][NextCreateRoom]_vars

\* Every awaited call of a running handler returns: the handler takes its next step
CreateRoomGoesOn(r) == CreateRoomRetry(r) \/ CreateRoomInsert(r) \/ CreateRoomSession(r)

SpecCreateRoomFair == SpecCreateRoom /\ \A r \in Reqs : WF_vars(CreateRoomGoesOn(r))

-----------------------------------------------------------------------------
(* Rooms created, visited, listed and deleted beside one another *)

NextRoomLife ==
  \/ \E r \in Reqs : CreateRoomFirst(r)
  \/ \E r \in Reqs : CreateRoomRetry(r)
  \/ \E r \in Reqs : CreateRoomInsert(r)
  \/ \E r \in Reqs : CreateRoomSession(r)
  \/ \E r \in Reqs : GetRoomLookup(r)
  \/ \E r \in Reqs : GetRoomSession(r)
  \/ \E r \in Reqs : RoomPollsLookup(r)
  \/ \E r \in Reqs : RoomPollsFetch(r)
  \/ \E r \in Reqs : DeleteRoomLookup(r)
  \/ \E r \in Reqs : DeleteRoomDelete(r)
  \/ Tick

SpecRoomLife == InitApi /\ [][NextRoomLife]_vars

-----------------------------------------------------------------------------
(* Rooms visited, listed and deleted *)

InitRooms ==
  /\ \E exp \in {Null, Some(0), Some(1)}, second \in BOOLEAN, a1 \in BOOLEAN, a2 \in BOOLEAN :
       /\ rooms = { RoomRow(1, Code("A", "B", "C", "1", "2", "3"), exp) }
                    \cup (IF second THEN { RoomRow(2, Code("Z", "Z", "Z", "9", "9", "9"), Some(1)) }
                                    ELSE {})
       /\ polls = { PollRow(1, 1, [poll_type |-> "yes_no", options |-> YesNoOptions], a1),
                    PollRow(2, 1, [poll_type |-> "multiple_choice", options |-> ChoiceOptions], a2) }
                    \cup (IF second
                          THEN { PollRow(3, 2, [poll_type |-> "yes_no", options |-> YesNoOptions],
                                         TRUE) }
                          ELSE {})
  /\ votes = SetToBag({ [poll_id |-> 1, session_id |-> "s1", choice |-> "yes"] })
  /\ sessions = {}
  /\ now = 0
  /\ req = [r \in Reqs |-> Idle]
  /\ pollSeq = 3
  /\ hook = Unmounted

NextRooms ==
  \/ \E r \in Reqs : GetRoomLookup(r)
  \/ \E r \in Reqs : GetRoomSession(r)
  \/ \E r \in Reqs : RoomPollsLookup(r)
  \/ \E r \in Reqs : RoomPollsFetch(r)
  \/ \E r \in Reqs : DeleteRoomLookup(r)
  \/ \E r \in Reqs : DeleteRoomDelete(r)
  \/ Tick

SpecRooms == InitRooms /\ [][NextRooms]_vars

-----------------------------------------------------------------------------
(* The five operations that register a session, beside one another *)

NextRegistry ==
  \/ \E r \in Reqs : CreateRoomFirst(r)
  \/ \E r \in Reqs : CreateRoomRetry(r)
  \/ \E r \in Reqs : CreateRoomInsert(r)
  \/ \E r \in Reqs : CreateRoomSession(r)
  \/ \E r \in Reqs : GetRoomLookup(r)
  \/ \E r \in Reqs : GetRoomSession(r)
  \/ \E r \in Reqs : CreatePollLookup(r)
  \/ \E r \in Reqs : CreatePollInsert(r)
  \/ \E r \in Reqs : CreatePollSession(r)
  \/ \E r \in Reqs : PollLookup(r)
  \/ \E r \in Reqs : PollSession(r)
  \/ \E r \in Reqs : VoteLookup(r)
  \/ \E r \in Reqs : VoteCheck(r)
  \/ \E r \in Reqs : VoteInsert(r)
  \/ \E r \in Reqs : VoteSession(r)
  \/ Tick

\* A room with one open poll, and no session registered yet
InitRegistry ==
  /\ rooms = { RoomRow(1, Code("A", "B", "C", "1", "2", "3"), Some(MaxTime)) }
  /\ polls = { PollRow(1, 1, [poll_type |-> "yes_no", options |-> YesNoOptions], TRUE) }
  /\ votes = EmptyBag
  /\ sessions = {}
  /\ now = 0
  /\ req = [r \in Reqs |-> Idle]
  /\ pollSeq = 1
  /\ hook = Unmounted

SpecRegistry == InitRegistry /\ [][NextRegistry]_vars

-----------------------------------------------------------------------------
(* RateLimiter.checkRateLimit *)

\* The limiter's counters live in the session store beside the sessions, under
\* the keys rate_limit:<identifier>; a counter has its count and, once expire has
\* been called on it, the time at which the store drops it.
RateKey(identifier) == "rate_limit:" \o identifier

\* DEFAULT_WINDOW, in steps of the clock
windowSeconds == 1

IdentifierInputs == { "ip1", "ip2" }
MaxRequestsInputs == { 1, 2 }

Live(e) == e.ttl = Null \/ now < e.ttl[1]

\* client.get(key): the counters of that key that the store still holds
CounterOf(key) == { e \in sessions : e.id = key /\ Live(e) }

\* current ? parseInt(current) : 0
CountOf(key) == IF CounterOf(key) = {} THEN 0 ELSE (CHOOSE e \in CounterOf(key) : TRUE).count

\* client.incr(key): a key the store does not hold starts from 0, without expiry
Incremented(key) ==
  { e \in sessions : e.id # key }
    \cup { IF CounterOf(key) = {}
           THEN [id |-> key, count |-> 1, ttl |-> Null]
           ELSE [id |-> key, count |-> CountOf(key) + 1,
                 ttl |-> (CHOOSE e \in CounterOf(key) : TRUE).ttl] }

\* client.expire(key, windowSeconds)
Expiring(key) ==
  { e \in sessions : e.id # key \/ ~Live(e) }
    \cup { [e EXCEPT !.ttl = Some(now + windowSeconds)] : e \in CounterOf(key) }

Verdict(allowed, remaining) ==
  [allowed |-> allowed, remaining |-> remaining, resetTime |-> now + windowSeconds]

\* A limiter that blocks when its store fails
FailClosed(maxRequests) == Verdict(FALSE, 0)

\* The result when the store is not configured, and that of the catch block
FailOpen(maxRequests) == Verdict(TRUE, maxRequests)

\* From the start of the call to the end of the code that follows client.get.
LimitGet(r) ==
  /\ Free(r)
  /\ \E identifier \in IdentifierInputs, maxRequests \in MaxRequestsInputs, kv \in KvOutcomes :
       LET rq == [Idle EXCEPT !.op = "rate_limit",
                              !.id = [identifier |-> identifier, maxRequests |-> maxRequests]]
           count == CountOf(RateKey(identifier))
       IN IF kv = "unconfigured"
          THEN Return(r, rq, FailOpen(maxRequests), "nokv")
          ELSE IF kv = "throw"
          THEN Return(r, Called(rq), FailOpen(maxRequests), "kv")
          ELSE IF count >= maxRequests
          THEN Return(r, Called(rq), Verdict(FALSE, 0), "none")
          ELSE req' = [req EXCEPT ![r] =
                         [Called(rq) EXCEPT !.pc = "incr",
                                            !.found = [kind |-> "limit", count |-> count]]]
  /\ UNCHANGED <<rooms, polls, votes, sessions, now, pollSeq, hook>>

\* client.incr and the code that follows it.
LimitIncr(r) ==
  /\ req[r].pc = "incr" /\ req[r].op = "rate_limit"
  /\ \E kv \in KvOutcomes \ {"unconfigured"} :
       IF kv = "throw"
       THEN Return(r, Called(req[r]), FailOpen(req[r].id.maxRequests), "kv")
            /\ UNCHANGED sessions
       ELSE /\ sessions' = Incremented(RateKey(req[r].id.identifier))
            /\ req' = [req EXCEPT ![r] = [Called(req[r]) EXCEPT !.pc = "expire"]]
  /\ UNCHANGED <<rooms, polls, votes, now, pollSeq, hook>>

\* client.expire and the result.
LimitExpire(r) ==
  /\ req[r].pc = "expire" /\ req[r].op = "rate_limit"
  /\ \E kv \in KvOutcomes \ {"unconfigured"} :
       IF kv = "throw"
       THEN Return(r, Called(req[r]), FailOpen(req[r].id.maxRequests), "kv")
            /\ UNCHANGED sessions
       ELSE /\ sessions' = Expiring(RateKey(req[r].id.identifier))
            /\ Return(r, Called(req[r]),
                      Verdict(TRUE, req[r].id.maxRequests - req[r].found.count - 1), "none")
  /\ UNCHANGED <<rooms, polls, votes, now, pollSeq, hook>>

\* Callers of the limiter beside one another, and the clock
MaxCounted == 2

InitLimiter ==
  /\ rooms = {} /\ polls = {} /\ votes = EmptyBag
  /\ \/ sessions = {}
     \/ \E count \in 1..MaxCounted, ttl \in {Null, Some(1)} :
          sessions = { [id |-> RateKey("ip1"), count |-> count, ttl |-> ttl] }
  /\ now = 0
  /\ req = [r \in Reqs |-> Idle]
  /\ pollSeq = 0
  /\ hook = Unmounted

NextLimiter ==
  \/ \E r \in Reqs : LimitGet(r)
  \/ \E r \in Reqs : LimitIncr(r)
  \/ \E r \in Reqs : LimitExpire(r)
  \/ Tick

SpecLimiter == InitLimiter /\ [][NextLimiter]_vars

-----------------------------------------------------------------------------
(* A watched poll: voters and the hook beside one another *)

InitRealtime ==
  /\ rooms = { RoomRow(1, Code("A", "B", "C", "1", "2", "3"), Some(0)) }
  /\ polls = { PollRow(1, 1, [poll_type |-> "yes_no", options |-> YesNoOptions], TRUE) }
  /\ votes = EmptyBag
  /\ sessions = {}
  /\ now = 0
  /\ req = [r \in Reqs |-> Idle]
  /\ pollSeq = 1
  /\ hook = Unmounted

NextRealtime ==
  \/ \E r \in Reqs : VoteLookup(r)
  \/ \E r \in Reqs : VoteCheck(r)
  \/ \E r \in Reqs : VoteInsert(r)
  \/ \E r \in Reqs : VoteSession(r)
  \/ HookMount
  \/ HookSubscribed
  \/ HookVoteReceived
  \/ HookFetchServed
  \/ HookFetchDone

SpecRealtime == InitRealtime /\ [][NextRealtime]_vars

-----------------------------------------------------------------------------
(* The specification's reference definitions, used to state the properties *)

SessionHeaders == { h[1] : h \in { x \in HeaderInputs : x # Null } }

IsDone(r) == req[r].pc = "done"
IsVote(r) == req[r].op = "vote"

\* The poll types and option shapes for which the legal choice set is specified
HasIntegerBounds(poll) ==
  /\ HasKey(poll.options, "min") /\ Entry(poll.options, "min").kind = "number"
  /\ HasKey(poll.options, "max") /\ Entry(poll.options, "max").kind = "number"

SpecCovers(poll) ==
  \/ poll.poll_type \in {"yes_no", "multiple_choice"}
  \/ poll.poll_type = "rating" /\ HasIntegerBounds(poll)

\* The legal choice set of a poll: {"yes","no"}; every integer of [min, max],
\* stringified; the keys of the options mapping
LegalChoices(poll) ==
  CASE poll.poll_type = "yes_no" -> <<"yes", "no">>
    [] poll.poll_type = "rating" ->
         RatingKeys(Entry(poll.options, "min").num, Entry(poll.options, "max").num)
    [] OTHER -> ObjectKeys(poll.options)

\* The members of a sequence
KeySet(keys) == { keys[i] : i \in 1..Len(keys) }

\* A results request returns its result set in this step
ResultsReturned(r) ==
  /\ req[r].op = "results" /\ req[r].pc = "fetch"
  /\ req'[r].pc = "done" /\ req'[r].res.status = 200

\* The number of ledger rows of a poll that carry a choice
CommittedVotes(ledger, pollId, k) ==
  BagCardinality([v \in { w \in BagToSet(ledger) : w.poll_id = pollId /\ w.choice = k }
                    |-> CopiesIn(v, ledger)])

\* The vote requests of one session on one poll that got as far as the duplicate check
VoteGroup(p, s) == { r \in Reqs : IsVote(r) /\ req[r].id = UuidText(p) /\ req[r].sid = s }

-----------------------------------------------------------------------------
(* C1 *)

\* C1: in every reachable state, whatever the interleaving of the vote requests,
\* the ledger holds at most one vote row for each (poll_id, session_id).
C1_AtMostOneVotePerPollAndSession ==
  \A v \in BagToSet(votes) :
    CopiesIn(v, votes) = 1 /\ VotesOf(v.poll_id, v.session_id) = {v}

\* Two requests of one session passed the pre-check before either inserted; one
\* inserted and the constraint refused the other.
C1_RaceResolvedByConstraint ==
  \E r1, r2 \in Reqs :
    /\ r1 # r2 /\ IsVote(r1) /\ IsVote(r2)
    /\ req[r1].id = req[r2].id /\ req[r1].sid = req[r2].sid
    /\ req[r1].pc \in {"session", "done"} /\ req[r1].fault = "none" /\ ~req[r1].late
    /\ IsDone(r2) /\ req[r2].fault = "unique"
    /\ VotesOf(req[r1].id.key, req[r1].sid) # {}

-----------------------------------------------------------------------------
(* C2 *)

-----------------------------------------------------------------------------
(* C3 *)

\* C3: a vote insert refused by the uniqueness constraint on (poll_id, session_id)
\* is reported as DuplicateVote (409 'Already voted').
C3_ConstraintRefusalReportedAsDuplicate ==
  \A r \in Reqs :
    (IsVote(r) /\ IsDone(r) /\ req[r].fault = "unique")
      => req[r].res.status = 409 /\ req[r].res.error = "Already voted"

-----------------------------------------------------------------------------
(* C4 *)

\* A vote request that began after a vote of its session on its poll was committed
\* (and whose storage calls did not fail) is rejected with 409.
C4_LaterVoteRejected ==
  \A r \in Reqs :
    (IsVote(r) /\ IsDone(r) /\ req[r].late /\ req[r].fault \in {"none", "unique"})
      => req[r].res.status = 409 /\ req[r].res.error = "Already voted"

\* What getResults computes from the ledger counts, for every choice, exactly the
\* sessions whose one vote carries that choice.
C4_ResultsCountSessions ==
  \A p \in polls :
    \A i \in 1..Len(formatKeys(p)) :
      LET k == formatKeys(p)[i]
      IN voteCount(p, VotesOfPoll(p.id), k) =
           Cardinality({ v.session_id : v \in { w \in BagToSet(votes) :
                                                  w.poll_id = p.id /\ w.choice = k } })

\* While its poll exists, a committed vote stays the one vote of its session on
\* that poll, with the choice it was committed with.
C4_FirstVoteStays ==
  \A v \in BagToSet(votes) :
    (\E p \in polls' : p.id = v.poll_id)
      => /\ CopiesIn(v, votes') = 1
         /\ { w \in BagToSet(votes') : w.poll_id = v.poll_id /\ w.session_id = v.session_id } = {v}

-----------------------------------------------------------------------------
(* C5 *)

\* Every vote of the ledger references a poll and carries a legal choice of it.
C5_VotesAreLegal ==
  \A v \in BagToSet(votes) :
    /\ \E p \in polls : p.id = v.poll_id
    /\ \A p \in polls :
         p.id = v.poll_id
           => /\ SpecCovers(p)
              /\ v.choice \in { LegalChoices(p)[i] : i \in 1..Len(LegalChoices(p)) }

\* No step changes the type or the options of a poll.
C5_PollShapeFixed ==
  \A p \in polls : \A q \in polls' :
    q.id = p.id => q.poll_type = p.poll_type /\ q.options = p.options

-----------------------------------------------------------------------------
(* C6 *)

\* A well-formed vote request on an inactive poll, its lookup answered, got 410.
C6_InactiveRejected ==
  \A r \in Reqs :
    ( /\ IsVote(r) /\ IsDone(r) /\ req[r].fault = "none"
      /\ uuidRegexTest(req[r].id) /\ ~ChoiceMissing(req[r].choice)
      /\ \E p \in polls : p.id = req[r].id.key /\ ~p.is_active )
      => req[r].res.status = 410

\* A step that adds a vote adds it to an active poll, and the step in which a
\* request on an inactive poll returns leaves the ledger as it was.
C6_NoVoteOnInactive ==
  /\ \A v \in BagToSet(votes') :
       CopiesIn(v, votes') > CopiesIn(v, votes)
         => \E p \in polls : p.id = v.poll_id /\ p.is_active
  /\ \A r \in Reqs :
       ( /\ ~IsDone(r) /\ req'[r].pc = "done" /\ req'[r].op = "vote"
         /\ \E p \in polls : p.id = req'[r].id.key /\ ~p.is_active )
         => votes' = votes

-----------------------------------------------------------------------------
(* C7 *)

\* The first check that fails, in the order InvalidIdentifier, NotFound, Expired,
\* Inactive, InvalidChoice ("pass": none of them fails)
FirstFailureInSpecOrder(id, choice) ==
  IF ~uuidRegexTest(id) THEN "Invalid poll ID"
  ELSE IF PollWithRoom(id) = {} THEN "Poll not found"
  ELSE LET j == CHOOSE x \in PollWithRoom(id) : TRUE
       IN IF RoomExpired(j.rooms.expires_at, now) THEN "Room expired"
          ELSE IF ~j.poll.is_active THEN "Poll inactive"
          ELSE IF ChoiceMissing(choice) \/ ~includes(validChoices(j.poll), choice.str)
          THEN "Invalid choice"
          ELSE "pass"

\* C7: submitVote evaluates its checks in the order InvalidIdentifier, NotFound,
\* Expired, Inactive, InvalidChoice, DuplicateVote and returns the rejection of the
\* first that fails (an inactive poll in an expired room: Expired; a missing choice
\* on a nonexistent poll: NotFound).
C7_ChecksInSpecOrder ==
  [][ \A r \in Reqs :
        (req[r].pc = "idle" /\ req'[r].op = "vote" /\ req'[r].fault \notin {"db", "body"})
          => LET e == FirstFailureInSpecOrder(req'[r].id, req'[r].choice)
             IN IF e = "pass"
                THEN req'[r].pc = "check"
                ELSE req'[r].pc = "done" /\ req'[r].res.error = e ]_vars

-----------------------------------------------------------------------------
(* C8 *)

\* C8: for a poll whose room has a null or past expiration, GET poll, POST vote and
\* GET results (well-formed id) each return the Expired failure with 410, insert no
\* vote and expose no data.
C8_ExpiredRoomGatesAllThree ==
  [][ \A r \in Reqs :
        ( /\ req[r].pc = "idle" /\ req'[r].op \in {"poll", "vote", "results"}
          /\ uuidRegexTest(req'[r].id) /\ req'[r].fault \notin {"db", "body"}
          /\ \E j \in PollWithRoom(req'[r].id) : RoomExpired(j.rooms.expires_at, now) )
          => /\ req'[r].pc = "done"
             /\ req'[r].res.status = 410 /\ req'[r].res.error = "Room expired"
             /\ req'[r].res.data = NoData
             /\ votes' = votes ]_vars

-----------------------------------------------------------------------------
(* C9 *)

\* C9: a vote on a resolvable, active poll in an unexpired room with a choice that
\* is not in the legal choice set (the empty string included) is rejected with 400
\* 'Invalid choice', the details listing the complete legal choice set in order.
C9_InvalidChoiceListsLegalSet ==
  [][ \A r \in Reqs :
        (req[r].pc = "idle" /\ req'[r].op = "vote" /\ req'[r].fault # "db"
           /\ req'[r].choice.kind = "string")
          => \A j \in PollWithRoom(req'[r].id) :
               ( /\ j.poll.is_active /\ ~RoomExpired(j.rooms.expires_at, now)
                 /\ SpecCovers(j.poll)
                 /\ ~includes(LegalChoices(j.poll), req'[r].choice.str) )
               => /\ req'[r].pc = "done"
                  /\ req'[r].res.status = 400 /\ req'[r].res.error = "Invalid choice"
                  /\ req'[r].res.details
                       = "Choice must be one of: " \o join(LegalChoices(j.poll), ", ") ]_vars

-----------------------------------------------------------------------------
(* C10 *)

\* C10: the choice set derived from a poll's type and options is {"yes","no"} for a
\* yes_no poll, every integer from min to max (stringified) for a rating poll with
\* integer bounds (a bound of 0 included), and the keys of the options for a
\* multiple_choice poll; the validator and the aggregator both derive it.
C10_DerivedChoiceSetIsLegalSet ==
  \A p \in polls :
    SpecCovers(p) => /\ validChoices(p) = LegalChoices(p)
                     /\ countKeys(p) = LegalChoices(p)
                     /\ formatKeys(p) = LegalChoices(p)

-----------------------------------------------------------------------------
(* C11 *)

\* For every stored poll the choices the validator accepts are the keys of the
\* result mapping the aggregator builds.
C11_SameKeysForStoredPolls ==
  \A p \in polls :
    KeySet(validChoices(p)) = DOMAIN formattedResults(p, VotesOfPoll(p.id))

\* A result set returned has exactly the validator's choices as keys; a choice the
\* validator lets through is a key of the poll's result mapping, and a choice it
\* rejects as not being one of the poll's choices is not.
C11_AcceptedAreReported ==
  \A r \in Reqs :
    /\ ResultsReturned(r)
         => DOMAIN req'[r].res.data.results = KeySet(validChoices(req[r].found.poll))
    /\ (req[r].pc = "idle" /\ req'[r].op = "vote" /\ req'[r].pc = "check")
         => req'[r].choice.str \in DOMAIN formattedResults(req'[r].found.poll, EmptyBag)
    /\ ( /\ req[r].pc = "idle" /\ req'[r].op = "vote" /\ req'[r].pc = "done"
         /\ req'[r].res.error = "Invalid choice" /\ ~ChoiceMissing(req'[r].choice) )
         => \A j \in PollWithRoom(req'[r].id) :
              req'[r].choice.str \notin DOMAIN formattedResults(j.poll, EmptyBag)

-----------------------------------------------------------------------------
(* C12 *)

\* C12: for any poll in an unexpired room, getResults returns an entry for every key
\* of the legal choice set and for no other key, and a choice without votes appears
\* with count 0 and percentage 0.
C12_EntryForEveryLegalKey ==
  [][ \A r \in Reqs :
        (ResultsReturned(r) /\ SpecCovers(req[r].found.poll))
          => LET res == req'[r].res.data.results
                 legal == KeySet(LegalChoices(req[r].found.poll))
             IN /\ DOMAIN res = legal
                /\ \A k \in legal :
                     (\A v \in BagToSet(req'[r].rows) : v.choice # k)
                       => res[k].count = 0 /\ res[k].percentage = 0 ]_vars

-----------------------------------------------------------------------------
(* C13 *)

\* A result set returned reports, for each legal choice, the number of ledger
\* votes of the poll that carry it at the time of the read.
C13_CountsAreLedgerCounts ==
  \A r \in Reqs :
    (ResultsReturned(r) /\ SpecCovers(req[r].found.poll))
      => LET res == req'[r].res.data.results
         IN \A k \in KeySet(LegalChoices(req[r].found.poll)) :
              /\ k \in DOMAIN res
              /\ res[k].count = CommittedVotes(votes, req[r].id.key, k)

\* A vote request that returns 201 has added its one row, which raised the count of
\* its choice by one; a vote request that returns anything else has added none.
C13_OnlySuccessCounts ==
  \A r \in Reqs :
    /\ (IsVote(r) /\ req[r].pc = "insert" /\ votes' # votes)
         => \A p \in polls : \A k \in KeySet(LegalChoices(p)) :
              CommittedVotes(votes', p.id, k)
                = CommittedVotes(votes, p.id, k)
                    + (IF p.id = req[r].id.key /\ k = req[r].choice.str THEN 1 ELSE 0)
    /\ (IsVote(r) /\ ~IsDone(r) /\ req'[r].pc = "done")
         => IF req'[r].res.status = 201
            THEN req[r].pc = "session"
            ELSE req[r].pc # "session" /\ votes' = votes

\* C13: getResults reports for each legal choice the number of committed votes of
\* the poll carrying it at read time; every successful submitVote raises exactly
\* one count by one and a rejected submission changes no count.
C13_ResultsReflectCommittedVotes ==
  [][C13_CountsAreLedgerCounts]_vars /\ [][C13_OnlySuccessCounts]_vars

-----------------------------------------------------------------------------
(* C14 *)

\* C14: getResults tolerates ledger votes whose choice is not a key of the legal
\* choice set: whenever the votes query answers it returns a result set, and such
\* votes contribute to no choice's count.
C14_UnrecognizedVotesIgnored ==
  [][ \A r \in Reqs :
        (req[r].op = "results" /\ req[r].pc = "fetch" /\ req'[r] # req[r]
           /\ req'[r].fault # "db" /\ SpecCovers(req[r].found.poll))
          => /\ ResultsReturned(r)
             /\ LET res == req'[r].res.data.results
                IN \A k \in DOMAIN res :
                     res[k].count =
                       IF k \in KeySet(LegalChoices(req[r].found.poll))
                       THEN CommittedVotes(req'[r].rows, req[r].id.key, k)
                       ELSE 0 ]_vars

-----------------------------------------------------------------------------
(* C15 *)

\* count / total * 100 rounded to the nearest integer, halves up
NearestPercent(count, total) == (200 * count + total) \div (2 * total)

\* C15: in every result set each percentage is count / total_votes * 100 rounded to
\* the nearest integer (halves up) when total_votes > 0 and 0 when total_votes = 0,
\* and is an integer between 0 and 100.
C15_PercentageIsRoundedShare ==
  [][ \A r \in Reqs :
        ResultsReturned(r)
          => LET res == req'[r].res.data.results
                 total == req'[r].res.data.total_votes
             IN \A k \in DOMAIN res :
                  /\ res[k].percentage \in 0..100
                  /\ res[k].percentage
                       = IF total = 0 THEN 0 ELSE NearestPercent(res[k].count, total) ]_vars

-----------------------------------------------------------------------------
(* C16 *)

RECURSIVE SumOfPercentages(_, _)
SumOfPercentages(res, keys) ==
  IF keys = {} THEN 0
  ELSE LET k == CHOOSE x \in keys : TRUE
       IN res[k].percentage + SumOfPercentages(res, keys \ {k})

\* C16: for a poll with N > 0 votes the rounded percentages of the result set sum
\* to 100 within half a point per choice.
C16_PercentagesSumNearHundred ==
  [][ \A r \in Reqs :
        (ResultsReturned(r) /\ req'[r].res.data.total_votes > 0)
          => LET res == req'[r].res.data.results
                 sum == SumOfPercentages(res, DOMAIN res)
                 n == Cardinality(DOMAIN res)
             IN 2 * (sum - 100) <= n /\ 2 * (100 - sum) <= n ]_vars

-----------------------------------------------------------------------------
(* C17 *)

\* A step of a results request changes no table and no session.
C17_ResultsChangeNothing ==
  \A r \in Reqs :
    (req'[r] # req[r] /\ req'[r].op = "results")
      => rooms' = rooms /\ polls' = polls /\ votes' = votes /\ sessions' = sessions

\* Two result sets of one poll computed from the same rows are the same.
C17_SameLedgerSameResults ==
  \A r1, r2 \in Reqs :
    ( /\ req[r1].op = "results" /\ IsDone(r1) /\ req[r1].res.status = 200
      /\ req[r2].op = "results" /\ IsDone(r2) /\ req[r2].res.status = 200
      /\ req[r1].id = req[r2].id /\ req[r1].rows = req[r2].rows )
      => /\ req[r1].res.data.question = req[r2].res.data.question
         /\ req[r1].res.data.poll_type = req[r2].res.data.poll_type
         /\ req[r1].res.data.total_votes = req[r2].res.data.total_votes
         /\ req[r1].res.data.results = req[r2].res.data.results

-----------------------------------------------------------------------------
(* C18 *)

\* The rejections of submitVote
VoteRejections == { "Invalid poll ID", "Invalid choice", "Poll not found", "Room expired",
                    "Poll inactive", "Already voted" }

\* C18: a step of a vote request changes the ledger only by inserting the
\* request's one row and changes the session registry only after that insert; a
\* vote request that ends in a rejection has changed neither.
C18_VoteMutatesOnlyByInsertThenSession ==
  [][ \A r \in Reqs :
        (req'[r] # req[r] /\ req'[r].op = "vote")
          => /\ rooms' = rooms /\ polls' = polls
             /\ votes' # votes
                  => /\ req[r].pc = "insert"
                     /\ votes' = votes (+) SetToBag({ [poll_id |-> req[r].id.key,
                                                       session_id |-> req[r].sid,
                                                       choice |-> req[r].choice.str] })
             /\ sessions' # sessions => req[r].pc = "session"
             /\ (req'[r].pc = "done" /\ req'[r].res.error \in VoteRejections)
                  => /\ votes' = votes /\ sessions' = sessions
                     /\ req[r].pc \in {"idle", "check"} ]_vars

\* One session's vote was accepted while the session store was not configured, its
\* second vote was rejected as a duplicate; the ledger holds the one row and the
\* registry is empty.
C18_DuplicateRejectedNothingWritten ==
  \E r1, r2 \in Reqs :
    /\ IsVote(r1) /\ IsDone(r1) /\ req[r1].res.status = 201
    /\ IsVote(r2) /\ IsDone(r2) /\ req[r2].res.error = "Already voted"
    /\ req[r1].sid = req[r2].sid /\ req[r1].id = req[r2].id
    /\ BagCardinality(votes) = 1 /\ sessions = {}

-----------------------------------------------------------------------------
(* C19 *)

\* C19: for GET poll, POST vote and GET results a poll id that is not in UUID text
\* form is rejected with 400 'Invalid poll ID' before any storage or session-store
\* call is made.
C19_MalformedIdRejectedBeforeAnyCall ==
  \A r \in Reqs :
    (IsDone(r) /\ req[r].op \in {"poll", "vote", "results"} /\ ~uuidRegexTest(req[r].id))
      => /\ req[r].res.status = 400 /\ req[r].res.error = "Invalid poll ID"
         /\ req[r].calls = 0

-----------------------------------------------------------------------------
(* C20 *)

\* C20: once the vote insert has succeeded, submitVote returns 201 with the vote
\* record whether the session registry write succeeds, is skipped or throws.
C20_SessionUpsertIsBestEffort ==
  [][ \A r \in Reqs :
        (IsVote(r) /\ req[r].pc = "session" /\ req'[r].pc = "done")
          => /\ req'[r].res.status = 201
             /\ req'[r].res.data = VoteData([poll_id |-> req[r].id.key,
                                             choice |-> req[r].choice.str]) ]_vars

-----------------------------------------------------------------------------
(* C21 *)

StorageFaults == { "db", "unique", "fk" }

\* C21: in submitVote, getResults and GET poll a storage call that fails (the
\* poll lookup, the existing-vote check, the vote insert, the votes fetch) ends
\* the request with a 500 storage error: a failed call is the handler's last
\* call, and the response is never a success.
C21_FailedCallEndsWith500 ==
  \A r \in Reqs :
    (req[r].op \in {"vote", "poll", "results"} /\ req[r].fault \in StorageFaults)
      => /\ IsDone(r)
         /\ req[r].res.status = 500 /\ req[r].res.error = "Database error"

C21_NoCallAfterFailure ==
  \A r \in Reqs :
    (req[r].op \in {"vote", "poll", "results"} /\ req[r].fault \in StorageFaults)
      => req'[r] = req[r]

C21_StorageFailureNeverSwallowed ==
  []C21_FailedCallEndsWith500 /\ [][C21_NoCallAfterFailure]_vars

\* The votes fetch of one request and the existing-vote check of another have failed
C21_VotesFetchFailed ==
  \E r \in Reqs :
    /\ IsDone(r) /\ req[r].op = "results" /\ req[r].fault = "db" /\ req[r].calls = 2
    /\ req[r].res.details = "Failed to get poll results from database"
    /\ \E q \in Reqs :
         /\ IsDone(q) /\ IsVote(q) /\ req[q].fault = "db" /\ req[q].calls = 2
         /\ req[q].res.details = "Failed to check existing vote"

-----------------------------------------------------------------------------
(* C22 *)

\* The vote request r, which ends in this step, is one of the concurrent votes of
\* the claim: the storage layer served it, its poll is active in an unexpired room,
\* its choice is legal, and no other vote request on the poll is of its session.
ConcurrentVoter(r) ==
  /\ req[r].pc # "done" /\ req'[r].pc = "done" /\ req'[r].op = "vote"
  /\ req'[r].fault \notin StorageFaults
  /\ uuidRegexTest(req'[r].id) /\ PollWithRoom(req'[r].id) # {}
  /\ LET j == CHOOSE x \in PollWithRoom(req'[r].id) : TRUE
     IN /\ j.poll.is_active /\ ~RoomExpired(j.rooms.expires_at, now)
        /\ SpecCovers(j.poll)
        /\ req'[r].choice.kind = "string"
        /\ req'[r].choice.str \in KeySet(LegalChoices(j.poll))
  /\ \A q \in Reqs \ {r} :
       ~(IsVote(q) /\ req[q].id = req'[r].id /\ req[q].sid # "" /\ req[q].sid = req'[r].sid)

\* C22: vote requests of pairwise distinct sessions, each with a legal choice,
\* running concurrently on one active poll in an unexpired room all succeed with
\* 201, and each adds its one vote to the ledger, whatever the interleaving.
C22_DistinctSessionsAllSucceed ==
  [][ \A r \in Reqs :
        ConcurrentVoter(r)
          => /\ req'[r].res.status = 201
             /\ CopiesIn([poll_id |-> req'[r].id.key, session_id |-> req'[r].sid,
                          choice |-> req'[r].choice.str], votes') = 1 ]_vars

-----------------------------------------------------------------------------
(* C23 *)

\* C23: in every reachable state no two rooms, expired or not, share a code, also
\* when two room creations generate the same code and both pass the existence
\* check before either inserts.
C23_RoomCodesUnique ==
  \A x \in rooms : \A y \in rooms : x.code = y.code => x = y

\* Two creations got the same unused code past the existence check with one lookup
\* each; one has inserted its room, the other was refused by the constraint
C23_SameCodeRaceRefused ==
  \E r1 \in Reqs : \E r2 \in Reqs \ {r1} :
    /\ req[r1].op = "create_room" /\ req[r2].op = "create_room"
    /\ IsDone(r1) /\ req[r1].res.status = 201 /\ req[r1].calls <= 3
    /\ IsDone(r2) /\ req[r2].fault = "unique" /\ req[r2].calls = 2
    /\ req[r1].id = req[r2].id /\ req[r1].id.code = Code("Z", "Z", "Z", "9", "9", "9")
    /\ Cardinality({ x \in rooms : x.code = req[r1].id.code }) = 1

-----------------------------------------------------------------------------
(* C24 *)

IsCreateRoom(r) == req[r].op = "create_room"

\* The loop makes at most maxAttempts turns, one lookup each
C24_AttemptsBounded ==
  \A r \in Reqs :
    IsCreateRoom(r) =>
      /\ req[r].pc = "generate" => req[r].found.attempts < maxAttempts
      /\ req[r].pc \in {"generate", "insert"} =>
            (req[r].found.attempts <= maxAttempts /\ req[r].calls = req[r].found.attempts)
      /\ (IsDone(r) /\ req[r].res.error = "Room creation failed") =>
            (req[r].res.status = 500 /\ req[r].calls = maxAttempts
             /\ \A x \in rooms : x.id # NewRoomId(r))

\* A turn that finds the code in use goes on to the next code or gives up at the
\* last turn, inserting nothing; a turn whose lookup gives no row ends the loop, and
\* the insert that follows stores a room of that very code.
C24_LoopSteps ==
  \A r \in Reqs :
    /\ (req'[r].op = "create_room" /\ req[r].pc \in {"idle", "generate"}
          /\ req'[r].calls = req[r].calls + 1)
         => /\ rooms' = rooms
            /\ (req'[r].pc = "generate" => RoomCodeTaken(req'[r].id.code))
            /\ (req'[r].pc = "done"
                  => (req'[r].res.error = "Room creation failed" /\ RoomCodeTaken(req'[r].id.code)
                      /\ req'[r].calls = maxAttempts))
            /\ req'[r].pc \in {"generate", "insert", "done"}
    /\ (IsCreateRoom(r) /\ req[r].pc = "insert" /\ req'[r].pc = "session")
         => (\E x \in rooms' : x.code = req[r].id.code /\ rooms' = rooms \cup {x} /\ x \notin rooms)
    /\ (\E x \in rooms' \ rooms : x.id = NewRoomId(r))
         => (IsCreateRoom(r) /\ req[r].pc = "insert" /\ req'[r].pc = "session")

\* Every room creation that was started comes to its end
C24_Terminates ==
  \A r \in Reqs : IsCreateRoom(r) ~> IsDone(r)

\* C24: room creation terminates after at most 10 code generations; it inserts a
\* room with the first generated code the lookup reports as unused, and when all
\* 10 codes are reported as existing it returns 500 'Room creation failed' and
\* inserts no room.
C24_CreationBoundedByTenCodes ==
  []C24_AttemptsBounded /\ [][C24_LoopSteps]_vars /\ C24_Terminates

\* One creation gave up after ten codes in use; another stored a room with its
\* third code
C24_GaveUpAfterTen ==
  \E r1 \in Reqs : \E r2 \in Reqs \ {r1} :
    /\ IsCreateRoom(r1) /\ IsDone(r1) /\ req[r1].res.error = "Room creation failed"
    /\ req[r1].calls = maxAttempts
    /\ IsCreateRoom(r2) /\ req[r2].pc = "session" /\ req[r2].found.attempts = 3
    /\ \E x \in rooms : x.id = NewRoomId(r2) /\ x.code = req[r2].id.code

-----------------------------------------------------------------------------
(* C25 *)

\* Every vote references an existing poll and every poll an existing room
C25_ReferencesHold ==
  /\ \A v \in BagToSet(votes) : \E p \in polls : p.id = v.poll_id
  /\ \A p \in polls : \E x \in rooms : x.id = p.room_id

\* The step in which a DELETE succeeds removes the room, its polls and their votes
C25_DeleteCascades ==
  \A r \in Reqs :
    (req[r].op = "delete_room" /\ req[r].pc = "delete" /\ req'[r].pc = "done"
     /\ req'[r].res.status = 200)
      => LET roomId == req[r].found.rooms.id
             owned == { p.id : p \in { q \in polls : q.room_id = roomId } }
         IN /\ \A x \in rooms' : x.id # roomId
            /\ \A p \in polls' : p.room_id # roomId
            /\ \A v \in BagToSet(votes') : v.poll_id \notin owned
            /\ polls' = { p \in polls : p.room_id # roomId }
            /\ \A v \in BagToSet(votes') : CopiesIn(v, votes') = CopiesIn(v, votes)

\* C25: after a successful DELETE of a room no poll of the room and no vote on
\* such a poll remains, and in every reachable state, a DELETE interleaved with
\* vote and poll-creation requests in flight included, every vote references an
\* existing poll and every poll an existing room.
C25_DeleteLeavesNoOrphans ==
  []C25_ReferencesHold /\ [][C25_DeleteCascades]_vars

\* A vote was committed and acknowledged, and the DELETE of its room has removed it
\* with its poll
C25_VoteGoneWithRoom ==
  \E r \in Reqs : \E q \in Reqs :
    /\ req[r].op = "delete_room" /\ IsDone(r) /\ req[r].res.status = 200
    /\ IsVote(q) /\ IsDone(q) /\ req[q].res.status = 201
    /\ rooms = {} /\ polls = {} /\ votes = EmptyBag

-----------------------------------------------------------------------------
(* C26 *)

\* C26: GET /rooms/{code} and DELETE /rooms/{code}, called with a code that
\* differs from an existing room's code only by letter case, resolve that room as
\* GET /rooms/{code}/polls does: the request is not turned away as invalid or as
\* not found.
C26_CodeCaseNormalized ==
  [][ \A r \in Reqs :
        (/\ req[r].pc = "idle"
         /\ req'[r].op \in {"room", "delete_room", "room_polls"}
         /\ req'[r].fault # "db"
         /\ \E x \in rooms : x.code = upperCased(req'[r].id.code))
          => req'[r].res.status \notin {400, 404} ]_vars

-----------------------------------------------------------------------------
(* C29 *)

\* The lookup of GET /rooms/{code}/polls: 404 when no room has the code, 410
\* without poll data when the room's expiration is null or past
C29_ListingGated ==
  \A r \in Reqs :
    (req[r].pc = "idle" /\ req'[r].op = "room_polls")
      => LET room == { x \in rooms : x.code = upperCased(req'[r].id.code) }
         IN /\ room = {} => (req'[r].res.status = 404 /\ req'[r].res.data = NoData)
            /\ (room # {} /\ req'[r].fault # "db")
                 => IF \E x \in room : RoomExpired(x.expires_at, now)
                    THEN /\ req'[r].pc = "done"
                         /\ req'[r].res.status = 410 /\ req'[r].res.data = NoData
                    ELSE req'[r].pc = "fetch" /\ req'[r].found.rooms \in room

\* The list returned: the polls of that room whose is_active flag is true, each once
C29_ListIsActivePollsOfRoom ==
  \A r \in Reqs :
    (req[r].op = "room_polls" /\ req[r].pc = "fetch" /\ req'[r].pc = "done"
     /\ req'[r].res.status = 200)
      => LET list == req'[r].res.data.list
         IN /\ KeySet(list) = { p \in polls : p.room_id = req[r].found.rooms.id /\ p.is_active }
            /\ Len(list) = Cardinality(KeySet(list))

\* C29: GET /rooms/{code}/polls returns exactly the polls of that room whose
\* is_active flag is true and no poll of another room, 404 when no room has the
\* code, and 410 with no poll data when the room's expiration is null or past.
C29_RoomPollsListing ==
  [][C29_ListingGated /\ C29_ListIsActivePollsOfRoom]_vars

\* A list was returned that leaves out an inactive poll of the room and the poll
\* of another room
C29_ListedBesideInactiveAndForeign ==
  \E r \in Reqs :
    /\ req[r].op = "room_polls" /\ IsDone(r) /\ req[r].res.status = 200
    /\ Len(req[r].res.data.list) = 1
    /\ \E p \in polls : p.room_id = req[r].res.data.list[1].room_id /\ ~p.is_active
    /\ \E p \in polls : p.room_id # req[r].res.data.list[1].room_id

-----------------------------------------------------------------------------
(* C27 *)

IsCreatePoll(r) == req[r].op = "create_poll"

\* The options a poll of each type may be created with: any labels for a binary
\* poll, integer bounds with min < max for a numeric range, 2 to 5 keys for an
\* enumerated choice
OptionsValid(body) ==
  CASE body.pollType = "yes_no" -> TRUE
    [] body.pollType = "rating" ->
         /\ body.options # Null
         /\ HasKey(body.options[1], "min") /\ Entry(body.options[1], "min").kind = "number"
         /\ HasKey(body.options[1], "max") /\ Entry(body.options[1], "max").kind = "number"
         /\ Entry(body.options[1], "min").num < Entry(body.options[1], "max").num
    [] body.pollType = "multiple_choice" ->
         body.options # Null /\ Len(body.options[1]) >= 2 /\ Len(body.options[1]) <= 5
    [] OTHER -> FALSE

\* C27: POST /polls stores a poll only when the request is valid and the room
\* exists: an unknown poll type or invalid options yields 400, a nonexistent room
\* 404, in both cases with no poll row inserted; a stored poll is created with
\* is_active = true and belongs to exactly the requested room.
C27_PollStoredOnlyWhenValid ==
  [][ \A r \in Reqs :
        /\ (req[r].pc = "idle" /\ req'[r].op = "create_poll")
             => LET body == req'[r].id
                IN /\ ~OptionsValid(body)
                      => (req'[r].pc = "done" /\ req'[r].res.status = 400)
                   /\ (OptionsValid(body) /\ body.roomId # Null /\ body.question # ""
                       /\ \A x \in rooms : x.id # body.roomId[1])
                      => (req'[r].pc = "done" /\ req'[r].res.status = 404)
                   /\ polls' = polls
        /\ (req'[r].op = "create_poll" /\ req[r].pc # "done" /\ req'[r].pc = "done"
            /\ req'[r].res.status \in {400, 404})
             => polls' = polls
        /\ (IsCreatePoll(r) /\ req[r].pc = "insert" /\ req'[r].pc = "session")
             => \E row \in polls' :
                  /\ row \notin polls /\ polls' = polls \cup {row}
                  /\ row.is_active /\ row.room_id = req[r].id.roomId[1]
                  /\ \E x \in rooms : x.id = row.room_id
                  /\ OptionsValid(req[r].id) ]_vars

-----------------------------------------------------------------------------
(* C28 *)

\* C28: every multiple_choice poll stored through POST /polls has between 2 and
\* 5 option keys: a request with fewer than 2 or more than 5 options is rejected
\* with 400 and stores nothing.
C28_ChoicePollsHaveTwoToFiveKeys ==
  \A p \in polls :
    p.poll_type = "multiple_choice"
      => (Len(ObjectKeys(p.options)) >= 2 /\ Len(ObjectKeys(p.options)) <= 5)

-----------------------------------------------------------------------------
(* C30 *)

\* C30: the rate limiter fails open: whenever its store is unconfigured or a call
\* to it throws during the check, checkRateLimit returns allowed = true with
\* remaining = maxRequests; the call ends there, with a result.
C30_LimiterFailsOpen ==
  \A r \in Reqs :
    (req[r].op = "rate_limit" /\ req[r].fault \in {"kv", "nokv"})
      => /\ IsDone(r)
         /\ req[r].res.allowed /\ req[r].res.remaining = req[r].id.maxRequests

\* The store threw on the first read of a caller who is over the limit, and the
\* increment of another caller succeeded before its expire threw
C30_OverLimitLetThrough ==
  \E r \in Reqs : \E q \in Reqs :
    /\ req[r].op = "rate_limit" /\ IsDone(r) /\ req[r].fault = "kv" /\ req[r].calls = 1
    /\ CountOf(RateKey(req[r].id.identifier)) >= req[r].id.maxRequests
    /\ req[r].res.allowed
    /\ req[q].op = "rate_limit" /\ IsDone(q) /\ req[q].fault = "kv" /\ req[q].calls = 3

-----------------------------------------------------------------------------
(* C31 *)

\* Votes have stopped arriving and everything issued has completed: the channel
\* has joined, the feed has told of every row, no fetch and no vote is under way
HookSettled ==
  /\ hook.status = "SUBSCRIBED"
  /\ hook.cursor = FeedLength
  /\ \A i \in DOMAIN hook.fetches : hook.fetches[i].pc = "done"
  /\ \A r \in Reqs : req[r].pc \in {"idle", "done"}

\* C31: once every change of the watched poll's ledger has been told of and every
\* issued result fetch has completed, in any completion order, the results the
\* subscribed hook holds are getResults over the final ledger.
C31_SettledHookHoldsFinalResults ==
  HookSettled => hook.results = GetResults(WatchedPoll, FALSE).data

\* The same with every fetch answered 200 and the channel joined before any vote
C31_StaleResponseNeverLands ==
  (/\ HookSettled
   /\ \A i \in DOMAIN hook.fetches : hook.fetches[i].res.status = 200
   /\ Len(hook.fetches) = 1 + FeedLength)
  => hook.results = GetResults(WatchedPoll, FALSE).data

-----------------------------------------------------------------------------
(* C32 *)

ApiOps ==
  { "create_room", "room", "delete_room", "create_poll", "room_polls", "poll", "vote",
    "results" }

\* The top-level fields of the JSON body a handler passed to NextResponse.json
Body(res) ==
  IF "message" \in DOMAIN res
  THEN [success |-> res.success, message |-> res.message]
  ELSE IF res.error = ""
  THEN [success |-> TRUE, data |-> res.data]
  ELSE [success |-> FALSE, error |-> res.error, details |-> res.details]

\* C32: every response of the eight endpoints has the top-level fields success,
\* data, error, details and no other; success is true exactly when the status is
\* 200 or 201; a failure carries both an error and a details string.
C32_ResponsesHaveTheCommonShape ==
  \A r \in Reqs :
    (IsDone(r) /\ req[r].op \in ApiOps) =>
      LET body == Body(req[r].res)
      IN /\ DOMAIN body \subseteq {"success", "data", "error", "details"}
         /\ body.success = (req[r].res.status \in {200, 201})
         /\ ~body.success => {"error", "details"} \subseteq DOMAIN body

-----------------------------------------------------------------------------
(* C33 *)

CreatedThroughApi(x) == "created_at" \in DOMAIN x

\* A created room expires after its creation, at most the 24 hours after it
C33_ExpirationAfterCreation ==
  \A x \in rooms :
    CreatedThroughApi(x) =>
      /\ x.expires_at # Null
      /\ x.expires_at[1] > x.created_at
      /\ x.expires_at[1] <= x.created_at + RoomLifetime

\* A room that stays in the store keeps its row
C33_RoomRowsNeverChange ==
  [][\A x \in rooms : \A y \in rooms' : y.id = x.id => y = x]_vars

\* C33: every room created through POST /rooms has an expiration that is not null
\* and strictly later than its creation time, and no operation changes the code,
\* the creation time or the expiration of a room afterwards.
C33_RoomLifetimeFixedAtCreation == []C33_ExpirationAfterCreation /\ C33_RoomRowsNeverChange

\* A created room has been looked up after the clock moved on
C33_CreatedRoomVisitedLater ==
  \E x \in rooms, r \in Reqs :
    /\ CreatedThroughApi(x) /\ now > x.created_at
    /\ req[r].op = "room" /\ IsDone(r) /\ req[r].res.status = 200
    /\ req[r].res.data.id = x.id

-----------------------------------------------------------------------------
(* C34 *)

\* The vote request r, which ends in this step, came without an x-session-id
\* header and is one of those of the claim: the storage layer served it, its poll
\* is active in an unexpired room and its choice is legal.
HeaderlessVoter(r) ==
  /\ req[r].pc # "done" /\ req'[r].pc = "done" /\ req'[r].op = "vote"
  /\ req'[r].sid = MintedId(r)
  /\ req'[r].fault \notin StorageFaults
  /\ LET j == CHOOSE x \in PollWithRoom(req'[r].id) : TRUE
     IN /\ PollWithRoom(req'[r].id) # {}
        /\ j.poll.is_active /\ ~RoomExpired(j.rooms.expires_at, now)
        /\ SpecCovers(j.poll)
        /\ req'[r].choice.str \in KeySet(LegalChoices(j.poll))

\* C34: a vote request without an x-session-id header is never rejected as a
\* duplicate; with a legal choice on an open poll it succeeds with 201, its
\* response does not tell the minted session, and it adds its one vote to the
\* ledger, however many such requests there are.
C34_HeaderlessVotesAllSucceed ==
  [][ \A r \in Reqs :
        HeaderlessVoter(r)
          => /\ req'[r].res.status = 201
             /\ "session_id" \notin DOMAIN req'[r].res.data
             /\ CopiesIn([poll_id |-> req'[r].id.key, session_id |-> req'[r].sid,
                          choice |-> req'[r].choice.str], votes') = 1 ]_vars

\* The same without the status: never a duplicate, the vote is in the ledger
C34_HeaderlessVotesAllCounted ==
  [][ \A r \in Reqs :
        HeaderlessVoter(r)
          => /\ req'[r].res.status # 409
             /\ "session_id" \notin DOMAIN req'[r].res.data
             /\ CopiesIn([poll_id |-> req'[r].id.key, session_id |-> req'[r].sid,
                          choice |-> req'[r].choice.str], votes') = 1 ]_vars

-----------------------------------------------------------------------------
(* C35 *)

\* C35: no vote is committed to the ledger at an instant later than the
\* expiration of the room of its poll, also when the clock passes the expiration
\* between the handler's expiration check and its insert.
C35_NoVoteCommittedAfterExpiration ==
  [][ \A r \in Reqs :
        (IsVote(r) /\ req[r].pc = "insert" /\ req'[r].pc = "session" /\ votes' # votes)
          => ~RoomExpired(req[r].found.rooms.expires_at, now) ]_vars

-----------------------------------------------------------------------------
(* C36 *)

IsLimit(r) == req[r].op = "rate_limit"

\* Every call made so far for the identifier of r has the limit of r
SameLimit(r) ==
  \A q \in Reqs :
    (IsLimit(q) /\ req[q].id.identifier = req[r].id.identifier)
      => req[q].id.maxRequests = req[r].id.maxRequests

\* The counter counts the calls allowed while it is alive: an allowed call never
\* takes it over the limit
C36_AllowedWithinLimit ==
  [][ \A r \in Reqs :
        (IsLimit(r) /\ req[r].pc = "incr" /\ req'[r].pc = "expire" /\ SameLimit(r))
          => CountOf(RateKey(req[r].id.identifier))' <= req[r].id.maxRequests ]_vars

\* A denied call writes nothing to the store
C36_DeniedCallWritesNothing ==
  [][ \A r \in Reqs :
        (req[r].pc # "done" /\ req'[r].pc = "done" /\ req'[r].op = "rate_limit"
         /\ ~req'[r].res.allowed)
          => sessions' = sessions ]_vars

\* remaining is never negative
C36_RemainingNotNegative ==
  \A r \in Reqs : (IsDone(r) /\ IsLimit(r)) => req[r].res.remaining >= 0

\* C36: with a reachable store, checkRateLimit allows at most maxRequests calls of
\* an identifier while its counter is alive, also when calls of that identifier
\* run beside one another; a denied call neither increments the counter nor
\* extends its expiry; remaining is never negative.
C36_LimitHoldsUnderConcurrency ==
  C36_AllowedWithinLimit /\ C36_DeniedCallWritesNothing /\ []C36_RemainingNotNegative

-----------------------------------------------------------------------------
(* C37 *)

RECURSIVE SumOfCounts(_, _)
SumOfCounts(res, keys) ==
  IF keys = {} THEN 0
  ELSE LET k == CHOOSE x \in keys : TRUE
       IN res[k].count + SumOfCounts(res, keys \ {k})

-----------------------------------------------------------------------------
(* C38 *)

\* The request r registers its session in this step: its setex is served
Registers(r) ==
  /\ req[r].pc = "session" /\ req'[r].pc = "done"
  /\ req'[r].calls = req[r].calls + 1 /\ req'[r].fault # "kv"

\* The role and the room code the handler of r passes to createSession
RoleOf(r) == IF req[r].op \in {"create_room", "create_poll"} THEN "creator" ELSE "participant"
RoomCodeOf(r) ==
  CASE req[r].op = "create_room" -> req[r].id.code
    [] req[r].op = "room" -> normalizeRoomCode(req[r].id.code)
    [] OTHER -> req[r].found.rooms.code

\* C38: every room creation, poll creation, room lookup, poll lookup and vote
\* that registers its session replaces the whole entry of that session (role,
\* roomCode, createdAt) and touches no other entry: the entry of a session is
\* that of its latest registration, so a creator that looks up a room or a poll
\* or votes afterwards is recorded as participant.
C38_EntryIsLatestRegistration ==
  [][ \A r \in Reqs :
        Registers(r)
          => /\ { e \in sessions' : e.id = req[r].sid }
                  = { [id |-> req[r].sid, roomCode |-> RoomCodeOf(r), role |-> RoleOf(r),
                       createdAt |-> now] }
             /\ { e \in sessions' : e.id # req[r].sid }
                  = { e \in sessions : e.id # req[r].sid } ]_vars

\* A session registered as the creator of a poll is recorded as participant after
\* its vote or its lookup was registered
C38_CreatorBecameParticipant ==
  \E q \in Reqs, r \in Reqs :
    /\ IsDone(q) /\ req[q].op = "create_poll" /\ req[q].res.status = 201 /\ req[q].calls = 3
    /\ IsDone(r) /\ req[r].op \in {"vote", "poll", "room"} /\ req[r].sid = req[q].sid
    /\ req[r].res.status \in {200, 201}
    /\ \E e \in sessions : e.id = req[q].sid /\ e.role = "participant"

-----------------------------------------------------------------------------
(* C39 *)

\* The poll-creation request r ends in this step; its body passed the handler's
\* validation, its room exists, expired or not, and the storage layer served it.
ValidCreation(r) ==
  /\ req[r].pc # "done" /\ req'[r].pc = "done" /\ req'[r].op = "create_poll"
  /\ req'[r].fault \notin StorageFaults
  /\ LET body == req'[r].id
     IN /\ ValidatePoll(body.roomId, body.question, body.pollType, body.options).error = "pass"
        /\ \E x \in rooms : x.id = body.roomId[1]

\* A valid request for a room that exists creates an active poll and returns 201
C39_ValidRequestCreatesPoll ==
  [][ \A r \in Reqs :
        ValidCreation(r)
          => /\ req'[r].res.status = 201
             /\ \E p \in polls' : p.id = req'[r].res.data.id /\ p.is_active ]_vars

\* GET poll, POST vote and GET results on a poll of an expired room return 410
C39_ExpiredRoomPollUnreachable ==
  [][ \A r \in Reqs :
        ( /\ req[r].pc = "idle" /\ req'[r].op \in {"poll", "vote", "results"}
          /\ uuidRegexTest(req'[r].id) /\ req'[r].fault \notin {"db", "body"}
          /\ \E j \in PollWithRoom(req'[r].id) : RoomExpired(j.rooms.expires_at, now) )
          => req'[r].pc = "done" /\ req'[r].res.status = 410 ]_vars

\* C39: POST /polls does not look at the expiration of the room: a valid request
\* for a room that exists, expired or not, creates an active poll and returns
\* 201; a poll created in an expired room is unreachable from then on: GET poll,
\* POST vote and GET results on it return 410.
C39_PollsCreatedInExpiredRooms == C39_ValidRequestCreatesPoll /\ C39_ExpiredRoomPollUnreachable

-----------------------------------------------------------------------------
(* C40 *)

IsRating(body) == body.pollType = "rating" /\ body.options # Null
                    /\ HasKey(body.options[1], "min") /\ HasKey(body.options[1], "max")

\* Number(options[k]) of a bound that is a number or the text of one
BoundOf(options, k) == Entry(options, k).num

\* Every rating poll in the store has min < max and no bound of 0
C40_StoredRatingBoundsOrdered ==
  \A p \in polls :
    p.poll_type = "rating"
      => /\ BoundOf(p.options, "min") < BoundOf(p.options, "max")
         /\ BoundOf(p.options, "min") # 0 /\ BoundOf(p.options, "max") # 0

\* A request with min >= max, or with a bound of 0, is rejected with 400
C40_BadBoundsRejected ==
  \A r \in Reqs :
    (IsDone(r) /\ IsCreatePoll(r) /\ IsRating(req[r].id) /\ req[r].fault # "body")
      => LET min == BoundOf(req[r].id.options[1], "min")
             max == BoundOf(req[r].id.options[1], "max")
         IN /\ (min = 0 \/ max = 0)
                 => /\ req[r].res.status = 400
                    /\ req[r].res.details = "rating polls require min and max values"
            /\ min >= max => req[r].res.status = 400

\* C40: every rating poll stored through POST /polls has min < max with both
\* bounds non-zero: a request with min >= max is rejected with 400, one with a
\* bound of 0 is rejected with 400 'rating polls require min and max values'.
C40_RatingBoundsChecked == C40_StoredRatingBoundsOrdered /\ C40_BadBoundsRejected

====
